---- MODULE Spec2Model ----
(***************************************************************************)
(* Request-governance core of np-render (server.js and its later           *)
(* revisions): the bounded queue (_pump / runQueued), the RPM gate         *)
(* (throttleRPM), the 429 retry wrapper (withRetries) and the generation   *)
(* request (askOpenAI_JSON).  Line numbers refer to src/unnamed/part_001.  *)
(***************************************************************************)
EXTENDS Naturals, Integers, Sequences, FiniteSets, TLC

\* ---------------------------------------------------------------- bounds
MaxTasks == 3            \* tasks submitted to runQueued in one run
MaxConcurrency == 2      \* OPENAI_CONCURRENCY ranges over 1..MaxConcurrency

MaxRPM == 2              \* OPENAI_RPM ranges over 1..MaxRPM
MaxCallers == 2          \* concurrent callers of throttleRPM
MaxAdmissions == 4       \* admissions recorded in one run
MaxRetries == 3          \* the retries option ranges over 0..MaxRetries
MaxAttempts == 3         \* OPENAI_JSON_ATTEMPTS ranges up to MaxAttempts
Max429 == 4              \* 429 rejections the upstream gives a request in one run
MaxSchemaRejects == 2    \* schema-mode rejections it gives a request in one run
MaxQuestions == 5        \* questions in a list the model returns
MaxWords == 3            \* words in the text of a flashcard request
MaxBody == 3             \* pieces between the fences of a response text
MaxText == 6             \* characters in a text given to chunkText on its own
MaxChunk == 4            \* the max argument of chunkText ranges over 1..MaxChunk
MaxDemo == 3             \* requests served by the fallback generators in one run
MaxTime == 200000        \* the clock stops advancing here (ms)

TimeSteps == {30000, 60000}   \* amounts of time that pass between events (ms)

Tasks == 1..MaxTasks
Callers == 1..MaxCallers
Reqs == {1}              \* generation requests; request r is queue task r
                         \* and gate caller r
Kinds == {"ok", "err"}
Vals == {"v1", "v2"}     \* return values / error identities of a queued fn

\* ---------------------------------------------------------------- state
VARIABLES
  OPENAI_CONCURRENCY,    \* line 12, fixed at start-up
  _queue,                \* line 18: sequence of waiting entries (task ids)
  _active,               \* line 19
  immediates,            \* number of setImmediate(_pump) callbacks pending
  tstate,                \* per task: where its entry / its fn is
  fnResult,              \* per task: how its fn settled
  promise,               \* per task: the promise runQueued returned
  submitOrder,           \* task ids in the order runQueued was called
  dispatchOrder          \* task ids in the order their fn was started

qvars == <<OPENAI_CONCURRENCY, _queue, _active, immediates, tstate, fnResult,
           promise, submitOrder, dispatchOrder>>

VARIABLES
  OPENAI_RPM,            \* line 11, fixed at start-up
  now,                   \* Date.now()
  _winStart,             \* line 31
  _reqInWindow,          \* line 32
  tpc,                   \* per caller: "idle" or "sleeping" inside throttleRPM
  timer,                 \* per caller: time at which its sleep() ends (0: none)
  admissions,            \* times at which throttleRPM returned, in order
  wakes                  \* the returns from the sleep of line 39, in order

tvars == <<OPENAI_RPM, now, _winStart, _reqInWindow, tpc, timer, admissions, wakes>>

VARIABLES
  wr                     \* per caller: its withRetries invocation (lines 46-57)

rvars == <<wr>>

VARIABLES
  HAS_OPENAI,            \* line 92, fixed at start-up
  ask,                   \* per request: its askOpenAI_JSON call (lines 274-344)
  demo                   \* the results the fallback generators have returned

gvars == <<HAS_OPENAI, ask, demo>>

VARIABLES
  sm,                    \* the summary request being served (lines 545-581)
  qz,                    \* the quiz request being served (lines 603-635)
  fc,                    \* the flashcard request being served (lines 583-601)
  sj,                    \* the call of safeJSON on a text (lines 209-230)
  ck,                    \* the last call of chunkText (lines 147-156)
  ocr                    \* the run of runPdfOCR (lines 158-207)

pvars == <<sm, qz, fc, sj, ck, ocr>>

vars == <<qvars, tvars, rvars, gvars, pvars>>

Pending == [st |-> "pending", val |-> ""]
NoResult == [kind |-> "none", val |-> ""]

Range(s) == {s[k] : k \in 1..Len(s)}

\* ---------------------------------------------------------------- queue
QInit ==
  /\ OPENAI_CONCURRENCY \in 1..MaxConcurrency
  /\ _queue = <<>>
  /\ _active = 0
  /\ immediates = 0
  /\ tstate = [t \in Tasks |-> "unsubmitted"]
  /\ fnResult = [t \in Tasks |-> NoResult]
  /\ promise = [t \in Tasks |-> Pending]
  /\ submitOrder = <<>>
  /\ dispatchOrder = <<>>

\* line 21: the early return of _pump
PumpBlockedOff(a, q) == a > OPENAI_CONCURRENCY \/ Len(q) = 0
PumpBlocked(a, q) == a >= OPENAI_CONCURRENCY \/ Len(q) = 0

\* line 22: _queue.shift() takes the oldest entry
ShiftEntryLast(q) == q[Len(q)]
ShiftEntry(q) == Head(q)

ShiftRestDropsTwo(q) == IF Len(q) >= 2 THEN Tail(Tail(q)) ELSE Tail(q)
ShiftRestKeeps(q) == q
ShiftRest(q) == Tail(q)

\* lines 20-24 up to the await: _pump run on queue contents q
Pump(q) ==
  IF PumpBlocked(_active, q)
  THEN /\ _queue' = q
       /\ UNCHANGED <<_active, dispatchOrder>>
       /\ tstate' = [t \in Tasks |->
                       IF tstate[t] = "unsubmitted" /\ t \in Range(q)
                       THEN "queued" ELSE tstate[t]]
  ELSE /\ _queue' = ShiftRest(q)
       /\ _active' = _active + 1
       /\ dispatchOrder' = Append(dispatchOrder, ShiftEntry(q))
       /\ tstate' = [t \in Tasks |->
                       IF t = ShiftEntry(q) THEN "running"
                       ELSE IF tstate[t] = "unsubmitted" /\ t \in Range(q)
                       THEN "queued" ELSE tstate[t]]

\* line 28: runQueued pushes the entry and calls _pump synchronously
runQueued(t) ==
  /\ tstate[t] = "unsubmitted"
  /\ t = Len(submitOrder) + 1
  /\ submitOrder' = Append(submitOrder, t)
  /\ Pump(Append(_queue, t))
  /\ UNCHANGED <<OPENAI_CONCURRENCY, immediates, fnResult, promise>>

\* the promise returned by fn() settles (the task's own work, environment)
FnSettle(t, k, v) ==
  /\ tstate[t] = "running"
  /\ tstate' = [tstate EXCEPT ![t] = "fnSettled"]
  /\ fnResult' = [fnResult EXCEPT ![t] = [kind |-> k, val |-> v]]
  /\ UNCHANGED <<OPENAI_CONCURRENCY, _queue, _active, immediates, promise,
                 submitOrder, dispatchOrder>>

\* lines 24-25: resolve(await fn()) / reject(e)
SettleWithSwapped(r) ==
  [st |-> IF r.kind = "ok" THEN "resolved" ELSE "rejected",
   val |-> IF r.val = "v1" THEN "v2" ELSE "v1"]
SettleWith(r) ==
  [st |-> IF r.kind = "ok" THEN "resolved" ELSE "rejected", val |-> r.val]

\* line 26: finally { _active--; ... }
ReleaseOnSuccessOnly(a, r) == IF r.kind = "ok" THEN a - 1 ELSE a
Release(a, r) == a - 1

\* lines 24-26: _pump resumes after the await
PumpResumeUnscheduled(t) ==
  /\ tstate[t] = "fnSettled"
  /\ promise' = [promise EXCEPT ![t] = SettleWith(fnResult[t])]
  /\ _active' = Release(_active, fnResult[t])
  /\ tstate' = [tstate EXCEPT ![t] = "done"]
  /\ UNCHANGED <<OPENAI_CONCURRENCY, _queue, immediates, fnResult,
                 submitOrder, dispatchOrder>>
PumpResume(t) ==
  /\ tstate[t] = "fnSettled"
  /\ promise' = [promise EXCEPT ![t] = SettleWith(fnResult[t])]
  /\ _active' = Release(_active, fnResult[t])
  /\ immediates' = immediates + 1
  /\ tstate' = [tstate EXCEPT ![t] = "done"]
  /\ UNCHANGED <<OPENAI_CONCURRENCY, _queue, fnResult, submitOrder,
                 dispatchOrder>>

\* line 26: the callback scheduled by setImmediate(_pump) runs
PumpImmediate ==
  /\ immediates > 0
  /\ immediates' = immediates - 1
  /\ Pump(_queue)
  /\ UNCHANGED <<OPENAI_CONCURRENCY, fnResult, promise, submitOrder>>

\* ---------------------------------------------------------------- throttle
Window == 60000          \* line 35: 60_000
Margin == 50             \* line 37: + 50

TInit ==
  /\ OPENAI_RPM \in 1..MaxRPM
  /\ now = Window        \* any Date.now() >= 60000 behaves alike: first call resets
  /\ _winStart = 0
  /\ _reqInWindow = 0
  /\ tpc = [c \in Callers |-> "idle"]
  /\ timer = [c \in Callers |-> 0]
  /\ admissions = <<>>
  /\ wakes = <<>>

\* line 35: if (now - _winStart >= 60_000) { _winStart = now; _reqInWindow = 0; }
WindowExpired(n, ws) == n - ws >= Window
StartAfterCheck(n, ws) == IF WindowExpired(n, ws) THEN n ELSE ws
CountAfterCheckKeeps(n, ws, cnt) == cnt
CountAfterCheck(n, ws, cnt) == IF WindowExpired(n, ws) THEN 0 ELSE cnt

\* line 36: if (_reqInWindow >= OPENAI_RPM)
MustWait(cnt) == cnt >= OPENAI_RPM

\* line 37: const wait = 60_000 - (now - _winStart) + 50
WaitMs(n, ws) == Window - (n - ws) + Margin

\* lines 34-42: what one call of throttleRPM does before it returns or
\* suspends: the window after the elapsed-time check, whether the caller has
\* to sleep, and until when
Gate ==
  LET ws  == StartAfterCheck(now, _winStart)
      cnt == CountAfterCheck(now, _winStart, _reqInWindow)
  IN  [winStart |-> ws,
       sleeps   |-> MustWait(cnt),
       count    |-> IF MustWait(cnt) THEN cnt ELSE cnt + 1,
       wakeAt   |-> now + WaitMs(now, ws)]

\* lines 34-42: throttleRPM called by c, whose timers are tm
throttleEnter(c, tm) ==
  /\ _winStart' = Gate.winStart
  /\ _reqInWindow' = Gate.count
  /\ IF Gate.sleeps
     THEN /\ tpc' = [tpc EXCEPT ![c] = "sleeping"]
          /\ timer' = [tm EXCEPT ![c] = Gate.wakeAt]
          /\ UNCHANGED admissions
     ELSE /\ admissions' = Append(admissions, now)
          /\ tpc' = tpc
          /\ timer' = tm
  /\ UNCHANGED <<OPENAI_RPM, now, wakes>>

throttleRPM(c) ==
  /\ tpc[c] = "idle"
  /\ throttleEnter(c, timer)

\* lines 40-42: after the sleep, _winStart = Date.now(); _reqInWindow = 0; ++
throttleWake(c) ==
  /\ tpc[c] = "sleeping"
  /\ now >= timer[c]
  /\ _winStart' = now
  /\ _reqInWindow' = 0 + 1
  /\ admissions' = Append(admissions, now)
  /\ wakes' = Append(wakes, [c |-> c, at |-> now,
                              others |-> {d \in Callers \ {c} : tpc[d] = "sleeping"}])
  /\ tpc' = [tpc EXCEPT ![c] = "idle"]
  /\ timer' = [timer EXCEPT ![c] = 0]
  /\ UNCHANGED <<OPENAI_RPM, now>>

\* line 10: setTimeout fires when its delay has passed; time passes between
\* events, but not beyond a timer that is due
ArmedTimers == {timer[c] : c \in {d \in Callers : timer[d] # 0}}
Earliest(S) == CHOOSE x \in S : \A y \in S : x <= y
NoTimerDue == \A x \in ArmedTimers : x > now
Tick(d) ==
  /\ now < MaxTime \/ ArmedTimers # {}
  /\ NoTimerDue
  /\ now' = IF ArmedTimers # {} /\ (Earliest(ArmedTimers) < now + d \/ now >= MaxTime)
            THEN Earliest(ArmedTimers) ELSE now + d
  /\ UNCHANGED <<OPENAI_RPM, _winStart, _reqInWindow, tpc, timer, admissions, wakes>>

\* ---------------------------------------------------------------- retries
\* What an upstream call can do.  A response is named by what it carries:
\* message.parsed and/or message.content (decodable, undecodable or empty).
Responses == {"parsed", "parsed+garbage", "json", "garbage", "empty"}

\* An error as the code reads it: e.status, e.code, e.response.status
\* (0: absent), and whether its message mentions response_format.
ErrorShapes ==
  { [status |-> 429, code |-> 0,   rstatus |-> 0,   rf |-> FALSE],
    [status |-> 0,   code |-> 429, rstatus |-> 0,   rf |-> FALSE],
    [status |-> 0,   code |-> 0,   rstatus |-> 429, rf |-> FALSE],
    [status |-> 500, code |-> 429, rstatus |-> 0,   rf |-> FALSE],
    [status |-> 401, code |-> 0,   rstatus |-> 0,   rf |-> FALSE],
    [status |-> 400, code |-> 0,   rstatus |-> 0,   rf |-> TRUE],
    [status |-> 400, code |-> 0,   rstatus |-> 0,   rf |-> FALSE],
    [status |-> 0,   code |-> 0,   rstatus |-> 0,   rf |-> FALSE] }

NoOutcome == [kind |-> "none", val |-> "", status |-> 0, code |-> 0,
              rstatus |-> 0, rf |-> FALSE, id |-> 0]
OkOutcome(v, n) == [kind |-> "ok", val |-> v, status |-> 0, code |-> 0,
                    rstatus |-> 0, rf |-> FALSE, id |-> n]
ErrOutcome(e, n) == [kind |-> "err", val |-> "", status |-> e.status,
                     code |-> e.code, rstatus |-> e.rstatus, rf |-> e.rf,
                     id |-> n]
\* the outcomes the n-th invocation of fn can have
FnOutcomes(n) ==
  {OkOutcome(v, n) : v \in Responses} \cup {ErrOutcome(e, n) : e \in ErrorShapes}

RetryOptions == 0..MaxRetries
BaseOptions == {500}     \* line 46: base=500 (no caller overrides it)
Jitters == {0, 149}      \* line 53: Math.random()*150, in whole ms

WrIdle == [pc |-> "idle", i |-> 0, retries |-> 0, base |-> 0, calls |-> 0,
           fails |-> 0, slept |-> 0, sleepMs |-> 0, last |-> NoOutcome,
           result |-> NoOutcome]

RInit == wr = [c \in Callers |-> WrIdle]

\* line 51: const status = e?.status || e?.code || e?.response?.status
StatusOf(e) ==
  IF e.status # 0 THEN e.status
  ELSE IF e.code # 0 THEN e.code
  ELSE e.rstatus

\* line 52: if (status !== 429 || i >= retries) throw e
GivesUpAnyError(e, i, retries) == i >= retries
GivesUpEarly(e, i, retries) == StatusOf(e) # 429 \/ i + 1 >= retries
GivesUpLate(e, i, retries) == StatusOf(e) # 429 \/ i > retries
GivesUp(e, i, retries) == StatusOf(e) # 429 \/ i >= retries

RECURSIVE Pow2(_)
Pow2(n) == IF n = 0 THEN 1 ELSE 2 * Pow2(n - 1)

\* line 53: base * Math.pow(2,i) (+ jitter)
BackoffMsLinear(base, i) == base * (i + 1)
BackoffMs(base, i) == base * Pow2(i)

\* lines 46-49: withRetries is called: i = 0 and fn is invoked
WrStart(retries, base) ==
  [WrIdle EXCEPT !.pc = "awaiting", !.i = 0, !.retries = retries,
                 !.base = base, !.calls = 1]

\* lines 49-53: the promise of fn() settles with outcome o (jitter j)
WrSettle(w, o, j) ==
  IF o.kind = "ok"
  THEN [w EXCEPT !.pc = "returned", !.last = o, !.result = o]
  ELSE IF GivesUp(o, w.i, w.retries)
  THEN [w EXCEPT !.pc = "thrown", !.last = o, !.result = o,
                 !.fails = IF StatusOf(o) = 429 THEN @ + 1 ELSE @]
  ELSE [w EXCEPT !.pc = "sleeping", !.last = o, !.fails = @ + 1,
                 !.slept = @ + 1, !.sleepMs = BackoffMs(w.base, w.i) + j]

\* lines 53-54 and 49: the sleep ends, i++, and the loop invokes fn again
WrResume(w) == [w EXCEPT !.pc = "awaiting", !.i = @ + 1, !.calls = @ + 1]

withRetries(c, retries, base) ==
  /\ wr[c].pc = "idle"
  /\ wr' = [wr EXCEPT ![c] = WrStart(retries, base)]

fnSettles(c, o) ==
  /\ wr[c].pc = "awaiting"
  /\ o \in FnOutcomes(wr[c].calls)
  /\ \E j \in Jitters :
       LET w == WrSettle(wr[c], o, j)
       IN  /\ wr' = [wr EXCEPT ![c] = w]
           /\ timer' = IF w.pc = "sleeping"
                       THEN [timer EXCEPT ![c] = now + w.sleepMs]
                       ELSE timer

backoffDone(c) ==
  /\ wr[c].pc = "sleeping"
  /\ now >= timer[c]
  /\ wr' = [wr EXCEPT ![c] = WrResume(wr[c])]
  /\ timer' = [timer EXCEPT ![c] = 0]

\* ---------------------------------------------------------------- generation
DefaultRetries == 3      \* line 46: retries=3 (line 303 passes no options)
DefaultBase == 500       \* line 46: base=500
PauseUnit == 150         \* line 339: sleep(150 * attempt)

\* OPENAI_JSON_ATTEMPTS as parseInt reads it (line 279)
AttemptCfgs == -1..MaxAttempts

NoErr == [src |-> "none", attempt |-> 0, out |-> NoOutcome]
AskErr(src, a, o) == [src |-> src, attempt |-> a, out |-> o]

AskIdle == [pc |-> "idle", attempts |-> 0, attempt |-> 0, mode |-> "none",
            lastErr |-> NoErr, upstream |-> 0, upAtStart |-> 0,
            n429 |-> 0, nRejects |-> 0,
            pauses |-> <<>>, startTimes |-> <<>>, failures |-> <<>>,
            decoded |-> <<>>, result |-> [kind |-> "none", val |-> <<>>]]

GInit ==
  /\ HAS_OPENAI \in BOOLEAN
  /\ demo = <<>>
  /\ ask = [r \in Reqs |-> AskIdle]

\* line 280: Math.max(1, parseInt(opts.attempts || attemptsCfg || 2, 10));
\* no caller passes opts.attempts
AttemptsFrom(cfg) ==
  LET n == IF cfg # 0 THEN cfg ELSE 2
  IN  IF n > 1 THEN n ELSE 1

\* line 289: attempt <= attempts
LoopContinuesStrict(a, attempts) == a < attempts
LoopContinues(a, attempts) == a <= attempts

\* line 339: if (attempt < attempts)
AttemptsLeftInclusive(a, attempts) == a <= attempts
AttemptsLeft(a, attempts) == a < attempts

\* line 339: 150 * attempt
PauseMs(a) == PauseUnit * a

\* lines 310-311: err?.status === 400 && errMsg.includes('response_format'),
\* in the try that wraps the schema-mode call only
FallsBack(mode, e) == mode = "schema" /\ e.status = 400 /\ e.rf

\* line 320: choice?.message?.parsed
HasParsed(resp) == resp \in {"parsed", "parsed+garbage"}

\* lines 322-328: the text of message.content
ContentOf(resp) ==
  CASE resp = "parsed" -> "empty"
    [] resp = "parsed+garbage" -> "garbage"
    [] resp = "json" -> "json"
    [] resp = "garbage" -> "garbage"
    [] OTHER -> "empty"

\* lines 209-230: safeJSON on a text of the given class
safeJSON(txt) ==
  CASE txt = "json" -> [ok |-> TRUE, val |-> "json", err |-> "none"]
    [] txt = "garbage" -> [ok |-> FALSE, val |-> "", err |-> "parse"]
    [] OTHER -> [ok |-> FALSE, val |-> "", err |-> "empty"]

\* lines 318-335: what the attempt makes of a response
DecodeAnyMode(mode, resp) ==
  IF HasParsed(resp)
  THEN [ok |-> TRUE, val |-> "parsed", err |-> "none"]
  ELSE IF ContentOf(resp) = "empty" /\ mode = "schema"
  THEN [ok |-> FALSE, val |-> "", err |-> "nojson"]
  ELSE safeJSON(ContentOf(resp))
Decode(mode, resp) ==
  IF mode = "schema" /\ HasParsed(resp)
  THEN [ok |-> TRUE, val |-> "parsed", err |-> "none"]
  ELSE IF ContentOf(resp) = "empty" /\ mode = "schema"
  THEN [ok |-> FALSE, val |-> "", err |-> "nojson"]
  ELSE safeJSON(ContentOf(resp))

\* lines 303-307, 313: call(payload): withRetries(() => create(payload))
CallIssuedSticky(A, r, mode) ==
  [A EXCEPT ![r].pc = "calling", ![r].upstream = @ + 1,
            ![r].mode = IF A[r].mode = "text" THEN "text" ELSE mode]
CallIssued(A, r, mode) ==
  [A EXCEPT ![r].pc = "calling", ![r].mode = mode, ![r].upstream = @ + 1]

\* lines 289-307: attempt a of request r begins: throttleRPM, then, unless the
\* gate suspends it, the schema-mode call.  A, tm, W: ask, timer and wr as
\* the step has left them so far
AttemptStart(r, a, A, tm, W) ==
  LET A1 == [A EXCEPT ![r].attempt = a,
                      ![r].upAtStart = A[r].upstream,
                      ![r].startTimes = Append(@, now)]
  IN  /\ throttleEnter(r, tm)
      /\ IF Gate.sleeps
         THEN /\ ask' = [A1 EXCEPT ![r].pc = "gate", ![r].mode = "none"]
              /\ wr' = W
         ELSE /\ ask' = CallIssued(A1, r, "schema")
              /\ wr' = [W EXCEPT ![r] = WrStart(DefaultRetries, DefaultBase)]

\* line 28 with lines 20-24 and 287-293: _pump run on q; the task it
\* dispatches starts its first attempt at once (attempts >= 1)
Dispatch(q, A) ==
  /\ Pump(q)
  /\ IF PumpBlocked(_active, q)
     THEN /\ ask' = A
          /\ UNCHANGED <<tvars, wr>>
     ELSE AttemptStart(ShiftEntry(q), 1, A, timer, wr)

\* lines 275, 352, 376, 418: if (!HAS_OPENAI) ...
UnconfiguredNever(h) == FALSE
Unconfigured(h) == ~h

\* lines 274-287: askOpenAI_JSON is called
askOpenAI_JSON(r, cfg) ==
  /\ ask[r].pc = "idle"
  /\ IF Unconfigured(HAS_OPENAI)
     THEN /\ ask' = [ask EXCEPT ![r].pc = "failed",
                                ![r].lastErr = AskErr("config", 0, NoOutcome),
                                ![r].result = [kind |-> "err", val |-> <<"config", 0>>]]
          /\ UNCHANGED <<qvars, tvars, wr>>
     ELSE /\ tstate[r] = "unsubmitted"
          /\ r = Len(submitOrder) + 1
          /\ submitOrder' = Append(submitOrder, r)
          /\ Dispatch(Append(_queue, r),
                      [ask EXCEPT ![r].pc = "queued",
                                  ![r].attempts = AttemptsFrom(cfg)])
          /\ UNCHANGED <<OPENAI_CONCURRENCY, immediates, fnResult, promise>>
  /\ UNCHANGED <<HAS_OPENAI, demo, pvars>>

\* lines 352, 376, 418: without a backend a builder returns the output of its
\* fallback generator; lines 370, 412, 458: with one it calls askOpenAI_JSON
Build(kind, r, cfg) ==
  IF Unconfigured(HAS_OPENAI)
  THEN /\ Len(demo) < MaxDemo
       /\ demo' = Append(demo, kind)
       /\ UNCHANGED <<qvars, tvars, rvars, HAS_OPENAI, ask, pvars>>
  ELSE askOpenAI_JSON(r, cfg)

buildSummary(r, cfg) == Build("summary", r, cfg)
buildFlashcards(r, cfg) == Build("flashcards", r, cfg)
buildQuiz(r, cfg) == Build("quiz", r, cfg)

\* line 26: the scheduled _pump runs
GenPumpImmediate ==
  /\ immediates > 0
  /\ immediates' = immediates - 1
  /\ Dispatch(_queue, ask)
  /\ UNCHANGED <<OPENAI_CONCURRENCY, fnResult, promise, submitOrder, HAS_OPENAI, demo, pvars>>

\* lines 39-42 and 294-307: the gate's sleep ends; the schema-mode call goes out
GateWake(r) ==
  /\ ask[r].pc = "gate"
  /\ throttleWake(r)
  /\ ask' = CallIssued(ask, r, "schema")
  /\ wr' = [wr EXCEPT ![r] = WrStart(DefaultRetries, DefaultBase)]
  /\ UNCHANGED <<qvars, HAS_OPENAI, demo, pvars>>

\* line 342: throw lastErr || new Error('Impossibile ottenere JSON valido ...');
\* an error is named by its kind and the attempt that raised it
Thrown(lastErr) ==
  IF lastErr.src # "none" THEN <<lastErr.src, lastErr.attempt>>
  ELSE <<"nojson", 0>>

\* the task's async function returns v / throws (lines 321, 331, 342)
TaskEnds(r, A, kind, v) ==
  /\ ask' = [A EXCEPT ![r].pc = IF kind = "ok" THEN "done" ELSE "failed",
                      ![r].result = [kind |-> kind, val |-> v]]
  /\ FnSettle(r, kind, v)

\* lines 289, 342: the loop goes on with attempt a, or ends and throws lastErr
NextIterationRequeued(r, a, A, tm, W) ==
  IF LoopContinues(a, A[r].attempts)
  THEN /\ AttemptStart(r, a, A, tm, W)
       /\ _active' = _active - 1
       /\ _queue' = Append(_queue, r)
       /\ immediates' = immediates + 1
       /\ UNCHANGED <<OPENAI_CONCURRENCY, tstate, fnResult, promise,
                      submitOrder, dispatchOrder>>
  ELSE /\ TaskEnds(r, A, "err", Thrown(A[r].lastErr))
       /\ wr' = W
       /\ timer' = tm
       /\ UNCHANGED <<OPENAI_RPM, now, _winStart, _reqInWindow, tpc, admissions, wakes>>
NextIteration(r, a, A, tm, W) ==
  IF LoopContinues(a, A[r].attempts)
  THEN /\ AttemptStart(r, a, A, tm, W)
       /\ UNCHANGED qvars
  ELSE /\ TaskEnds(r, A, "err", Thrown(A[r].lastErr))
       /\ wr' = W
       /\ timer' = tm
       /\ UNCHANGED <<OPENAI_RPM, now, _winStart, _reqInWindow, tpc, admissions, wakes>>

\* lines 336-340: the attempt failed with err
AttemptFailed(r, A, err, W) ==
  LET a  == A[r].attempt
      A1 == [A EXCEPT ![r].lastErr = err,
                      ![r].failures = Append(@, [src |-> err.src, at |-> now])]
  IN  IF AttemptsLeft(a, A[r].attempts)
      THEN /\ ask' = [A1 EXCEPT ![r].pc = "pause",
                                ![r].pauses = Append(@, PauseMs(a))]
           /\ timer' = [timer EXCEPT ![r] = now + PauseMs(a)]
           /\ wr' = W
           /\ UNCHANGED <<qvars, OPENAI_RPM, now, _winStart, _reqInWindow,
                          tpc, admissions, wakes>>
      ELSE NextIteration(r, a + 1, A1, timer, W)

\* lines 307-335: the upstream call of the attempt settles with outcome o
UpstreamSettles(r, o, j) ==
  /\ ask[r].pc = "calling"
  /\ wr[r].pc = "awaiting"
  /\ o \in FnOutcomes(wr[r].calls)
  /\ LET w == WrSettle(wr[r], o, j)
           W == [wr EXCEPT ![r] = w]
           d == Decode(ask[r].mode, o.val)
           A == [ask EXCEPT ![r].decoded =
                   IF o.kind = "ok"
                   THEN Append(@, [attempt |-> ask[r].attempt,
                                   id |-> ask[r].upstream,
                                   base |-> ask[r].upAtStart])
                   ELSE @,
                 ![r].n429 = IF o.kind = "err" /\ StatusOf(o) = 429
                             THEN @ + 1 ELSE @,
                 ![r].nRejects = IF o.kind = "err" /\ o.rf THEN @ + 1 ELSE @]
       IN  CASE w.pc = "sleeping" ->
                  /\ wr' = W
                  /\ timer' = [timer EXCEPT ![r] = now + w.sleepMs]
                  /\ ask' = A
                  /\ UNCHANGED <<qvars, OPENAI_RPM, now, _winStart,
                                 _reqInWindow, tpc, admissions, wakes>>
             [] w.pc = "thrown" /\ FallsBack(ask[r].mode, o) ->
                  /\ ask' = CallIssued(A, r, "text")
                  /\ wr' = [wr EXCEPT ![r] = WrStart(DefaultRetries, DefaultBase)]
                  /\ UNCHANGED <<qvars, tvars>>
             [] w.pc = "thrown" /\ ~FallsBack(ask[r].mode, o) ->
                  AttemptFailed(r, A, AskErr("upstream", ask[r].attempt, o), W)
             [] w.pc = "returned" /\ d.ok ->
                  /\ TaskEnds(r, A, "ok", <<d.val, ask[r].attempt>>)
                  /\ wr' = W
                  /\ UNCHANGED tvars
             [] w.pc = "returned" /\ ~d.ok ->
                  AttemptFailed(r, A, AskErr(d.err, ask[r].attempt, o), W)
  /\ UNCHANGED <<HAS_OPENAI, demo, pvars>>

\* lines 53-54: the backoff inside withRetries ends and fn is invoked again
BackoffEnds(r) ==
  /\ ask[r].pc = "calling"
  /\ backoffDone(r)
  /\ ask' = [ask EXCEPT ![r].upstream = @ + 1]
  /\ UNCHANGED <<qvars, HAS_OPENAI, demo, pvars, OPENAI_RPM, now, _winStart, _reqInWindow,
                 tpc, admissions, wakes>>

\* lines 339, 289: the pause between attempts ends; attempt++
PauseEnds(r) ==
  /\ ask[r].pc = "pause"
  /\ now >= timer[r]
  /\ NextIteration(r, ask[r].attempt + 1, ask, [timer EXCEPT ![r] = 0], wr)
  /\ UNCHANGED <<HAS_OPENAI, demo, pvars>>

\* lines 24-26: _pump resumes and settles the promise of the request
GenPumpResume(r) ==
  /\ PumpResume(r)
  /\ UNCHANGED <<tvars, rvars, gvars, pvars>>

\* ---------------------------------------------------------------- summary
ChunkSize == 8000        \* line 550: chunkText(text, 8000)
MAX_INPUT_CHARS == 50000 \* line 15: OPENAI_MAX_INPUT_CHARS || '50000'

\* lengths of the text a request extracts; 0 stands for a PDF without text
\* (line 541 throws), and line 542 cuts every text to MAX_INPUT_CHARS
TextLens == {0, 1, 5000, 7999, 8000, 8001, 16000, 20000, 24001, 49999, 50000, 60000}
PauseCfgs == {0, 250}    \* line 14: CHUNK_PAUSE_MS

\* Math.min
MinOf(a, b) == IF a < b THEN a ELSE b

\* lines 147-156: chunkText on a text of len characters; a chunk is the slice
\* [from, to) of the text
RECURSIVE chunksFrom(_, _, _)
chunksFrom(i, len, max) ==
  IF i < len
  THEN <<[from |-> i, to |-> MinOf(i + max, len)]>> \o chunksFrom(i + max, len, max)
  ELSE <<>>

chunkText(len, max) == chunksFrom(0, len, max)

\* line 349
computeSpreadDelay(size) == 0

SmIdle == [pc |-> "idle", len |-> 0, CHUNK_PAUSE_MS |-> 0,
           SPREAD_DISABLE |-> FALSE, chunks |-> <<>>,
           totalDelay |-> 0, perChunkDelay |-> 0, i |-> 0, partials |-> <<>>,
           calls |-> <<>>, sleeps |-> <<>>, response |-> "none"]

SInit == sm = SmIdle

\* lines 559, 569: (perChunkDelay>0) ? perChunkDelay : CHUNK_PAUSE_MS
SleepMsSpreadOnly(S) == S.perChunkDelay
SleepMs(S) == IF S.perChunkDelay > 0 THEN S.perChunkDelay ELSE S.CHUNK_PAUSE_MS

\* line 568: partials.length > 1 && HAS_OPENAI
MergeNeededAlways(n, h) == h
MergeNeeded(n, h) == n > 1 /\ h

\* lines 563, 573: buildSummary is called on chunk i (0-based), or on the
\* joined partials when i = chunks.length
SummaryCall(S) ==
  IF S.i < Len(S.chunks)
  THEN [kind |-> "chunk", i |-> S.i, from |-> S.chunks[S.i + 1].from,
        to |-> S.chunks[S.i + 1].to, parts |-> 0]
  ELSE [kind |-> "merge", i |-> S.i, from |-> 0, to |-> 0,
        parts |-> Len(S.partials)]

IssueCall(S) == [S EXCEPT !.pc = "generating", !.calls = Append(@, SummaryCall(S))]

\* lines 560, 570: await sleep(sleepMs)
Sleeping(S) ==
  [S EXCEPT !.pc = "sleeping",
            !.sleeps = Append(@, [before |-> S.i, ms |-> SleepMs(S)])]

\* lines 557-577: the loop reaches iteration i, or ends
LoopAtSleepsFirst(S0, i) ==
  LET S == [S0 EXCEPT !.i = i]
  IN  IF i < Len(S.chunks)
      THEN IF SleepMs(S) > 0 THEN Sleeping(S) ELSE IssueCall(S)
      ELSE IF MergeNeeded(Len(S.partials), HAS_OPENAI)
           THEN IF SleepMs(S) > 0 THEN Sleeping(S) ELSE IssueCall(S)
           ELSE [S EXCEPT !.pc = "done", !.response = "ok"]
LoopAt(S0, i) ==
  LET S == [S0 EXCEPT !.i = i]
  IN  IF i < Len(S.chunks)
      THEN IF i > 0 /\ SleepMs(S) > 0 THEN Sleeping(S) ELSE IssueCall(S)
      ELSE IF MergeNeeded(Len(S.partials), HAS_OPENAI)
           THEN IF SleepMs(S) > 0 THEN Sleeping(S) ELSE IssueCall(S)
           ELSE [S EXCEPT !.pc = "done", !.response = "ok"]

\* lines 545-563: POST /api/summary with a PDF whose text has L characters
postSummary(L, pause, sd) ==
  /\ sm.pc = "idle"
  /\ LET len    == MinOf(L, MAX_INPUT_CHARS)
         chunks == chunkText(len, ChunkSize)
         total  == computeSpreadDelay(len)
         S      == [sm EXCEPT !.len = len, !.CHUNK_PAUSE_MS = pause,
                              !.SPREAD_DISABLE = sd,
                              !.chunks = chunks, !.totalDelay = total,
                              !.perChunkDelay = IF Len(chunks) # 0
                                                THEN total \div Len(chunks)
                                                ELSE 0]
     IN  sm' = IF len = 0
               THEN [sm EXCEPT !.pc = "failed", !.response = "error"]
               ELSE LoopAt(S, 0)

\* lines 560, 570: the sleep ends and buildSummary is called
summarySleepEnds ==
  /\ sm.pc = "sleeping"
  /\ sm' = IssueCall(sm)

\* lines 563-565, 573-577: buildSummary returns its text
summaryReturns ==
  /\ sm.pc = "generating"
  /\ sm' = IF sm.i < Len(sm.chunks)
           THEN LoopAt([sm EXCEPT !.partials = Append(@, sm.i)], sm.i + 1)
           ELSE [sm EXCEPT !.pc = "done", !.response = "ok"]

\* lines 578-579: buildSummary throws (askOpenAI_JSON failed, or line 371);
\* the fallback generator of line 352 never throws
summaryThrowsGoesOn ==
  /\ sm.pc = "generating"
  /\ HAS_OPENAI
  /\ sm' = IF sm.i < Len(sm.chunks)
           THEN LoopAt(sm, sm.i + 1)
           ELSE [sm EXCEPT !.pc = "done", !.response = "ok"]
summaryThrows ==
  /\ sm.pc = "generating"
  /\ HAS_OPENAI
  /\ sm' = [sm EXCEPT !.pc = "failed", !.response = "error"]

\* ------------------------------------- the summary route of src/server.js
SpreadMin == 8000        \* server.js line 201: MIN
SpreadMax == 50000       \* server.js line 201: MAX
SpreadMaxMs == 120000    \* server.js line 202: MAX_MS

\* Math.max
MaxOf(a, b) == IF a > b THEN a ELSE b

\* server.js lines 198-207: computeSpreadDelay(totalChars), h being
\* HAS_OPENAI; Math.floor((clamped / span) * MAX_MS) in whole numbers, with
\* MAX_MS and span both taken in thousands to stay within 32 bits
computeSpreadDelayServer(totalChars, h) ==
  IF ~h THEN 0
  ELSE LET clamped == MaxOf(0, MinOf(SpreadMax, totalChars) - SpreadMin)
       IN  IF clamped <= 0 THEN 0
           ELSE (clamped * (SpreadMaxMs \div 1000))
                  \div ((SpreadMax - SpreadMin) \div 1000)

\* server.js line 293: Math.floor(totalDelay / chunks.length)
PerChunkDelayOverGaps(total, n) == IF n > 1 THEN total \div (n - 1) ELSE 0
PerChunkDelay(total, n) == IF n # 0 THEN total \div n ELSE 0

\* server.js lines 285-297: POST /api/summary; its loop (lines 296-307) is
\* the loop of part_001 with no CHUNK_PAUSE_MS: it sleeps perChunkDelay
\* before every slice but the first and before the merge, when that is > 0
postSummaryServer(L) ==
  /\ sm.pc = "idle"
  /\ LET len    == MinOf(L, SpreadMax)
         chunks == chunkText(len, ChunkSize)
         total  == computeSpreadDelayServer(len, HAS_OPENAI)
         S      == [sm EXCEPT !.len = len, !.chunks = chunks,
                              !.totalDelay = total,
                              !.perChunkDelay = PerChunkDelay(total, Len(chunks))]
     IN  sm' = IF len = 0
               THEN [sm EXCEPT !.pc = "failed", !.response = "error"]
               ELSE LoopAt(S, 0)

\* ------------------------------------------------------------------- quiz
\* a JavaScript number: an integer or NaN
NaN == [nan |-> TRUE, v |-> 0]
Num(v) == [nan |-> FALSE, v |-> v]

\* parseInt(s, 10) on the strings the requests carry
parseInt(s) ==
  CASE s = "0" -> Num(0)
    [] s = "2" -> Num(2)
    [] s = "12" -> Num(12)
    [] s = "15" -> Num(15)
    [] s = "25" -> Num(25)
    [] OTHER -> NaN

\* Math.min and Math.max: NaN if an argument is NaN
MathMin(a, b) == IF a.nan \/ b.nan THEN NaN ELSE IF a.v < b.v THEN a ELSE b
MathMax(a, b) == IF a.nan \/ b.nan THEN NaN ELSE IF a.v > b.v THEN a ELSE b

\* req.body.num; "absent" stands for a request without the field
NumInputs == {"absent", "0", "2", "x"}

\* line 607: Math.max(1, Math.min(parseInt(req.body.num || '15', 10), 60))
QuizN(num) ==
  MathMax(Num(1), MathMin(parseInt(IF num = "absent" THEN "15" ELSE num), Num(60)))

\* a string is the sequence of its characters
Blanks == {" "}
Lower(ch) ==
  CASE ch = "A" -> "a"
    [] ch = "B" -> "b"
    [] ch = "C" -> "c"
    [] ch = "D" -> "d"
    [] ch = "Q" -> "q"
    [] OTHER -> ch

\* String.prototype.trim
RECURSIVE TrimStart(_)
TrimStart(s) == IF s # <<>> /\ Head(s) \in Blanks THEN TrimStart(Tail(s)) ELSE s
RECURSIVE TrimEnd(_)
TrimEnd(s) ==
  IF s # <<>> /\ s[Len(s)] \in Blanks THEN TrimEnd(SubSeq(s, 1, Len(s) - 1)) ELSE s
Trim(s) == TrimEnd(TrimStart(s))

\* String.prototype.toLowerCase
toLowerCase(s) == [k \in 1..Len(s) |-> Lower(s[k])]

\* line 621: (q.question || '').trim().toLowerCase()
KeyOf(s) == toLowerCase(Trim(s))

\* line 624: Array.isArray(q.options) ? q.options.slice(0,4) : []
OptsOf(o) ==
  IF o.arr THEN SubSeq(o.items, 1, IF Len(o.items) < 4 THEN Len(o.items) ELSE 4)
  ELSE <<>>

\* line 626: Math.max(0, Math.min(parseInt(q.correct,10) || 0, 3))
CorrectOf(c) ==
  LET p == IF c.nan \/ c.v = 0 THEN Num(0) ELSE c
  IN  MathMax(Num(0), MathMin(p, Num(3))).v

\* line 628: uniq.length >= n
ReachedNNever(len, n) == FALSE
ReachedN(len, n) == ~n.nan /\ len >= n.v

\* line 625: opts.length < 4
TooFewOptionsNever(opts) == FALSE
TooFewOptions(opts) == Len(opts) < 4

\* lines 618-629: the loop over out.questions
RECURSIVE Sanitize(_, _, _, _)
Sanitize(qs, n, seen, uniq) ==
  IF qs = <<>> THEN uniq
  ELSE LET q   == Head(qs)
           key == KeyOf(q.question)
       IN  IF key = <<>> \/ key \in seen
           THEN Sanitize(Tail(qs), n, seen, uniq)
           ELSE IF TooFewOptions(OptsOf(q.options))
                THEN Sanitize(Tail(qs), n, seen \cup {key}, uniq)
                ELSE LET u == Append(uniq, [question |-> q.question,
                                            options |-> OptsOf(q.options),
                                            correct |-> CorrectOf(q.correct)])
                     IN  IF ReachedN(Len(u), n) THEN u
                         ELSE Sanitize(Tail(qs), n, seen \cup {key}, u)

\* line 630: if (!uniq.length) throw
NoneValidNever(uniq) == FALSE
NoneValid(uniq) == Len(uniq) = 0

\* the questions a model may return: well-formed ones, one with five
\* options, one that repeats it in another case with blanks around it and
\* has three options, one whose question is blank and whose options are not
\* an array
Options(k) == [arr |-> TRUE, items |-> [j \in 1..k |-> j]]
GenQuestionPool ==
  { [question |-> <<"A">>, options |-> Options(5), correct |-> Num(7)],
    [question |-> <<" ", "a", " ">>, options |-> Options(3), correct |-> Num(0)],
    [question |-> <<"B">>, options |-> Options(4), correct |-> NaN],
    [question |-> <<"C">>, options |-> Options(4), correct |-> Num(-1)],
    [question |-> <<"D">>, options |-> Options(4), correct |-> Num(2)],
    [question |-> <<" ">>, options |-> [arr |-> FALSE, items |-> <<>>],
     correct |-> Num(1)] }
GenLists == UNION {[1..k -> GenQuestionPool] : k \in 0..MaxQuestions}

\* lines 257-269: dummyQuiz on a text with s distinct sentences of more than
\* 20 characters: pickN gives min(s, min(n, 15)) of them (none if n is NaN)
Digits == <<"1", "2", "3", "4", "5">>
SentenceCounts == 0..2
dummyQuiz(s, n) ==
  LET lim == MathMin(n, Num(15))
      k   == IF lim.nan THEN 0 ELSE IF s < lim.v THEN s ELSE lim.v
  IN  [idx \in 1..k |->
         [question |-> <<"Q", Digits[idx]>>, options |-> Options(4),
          correct |-> Num(0)]]

QzIdle == [pc |-> "idle", n |-> Num(0), raw |-> <<>>, questions |-> <<>>,
           response |-> "none"]
QzInit == qz = QzIdle

\* lines 603-615: POST /api/quiz; the text is extracted or line 541 throws,
\* and line 611 sleeps when CHUNK_PAUSE_MS > 0 (computeSpreadDelay is 0)
postQuiz(num, extracted, pause) ==
  /\ qz.pc = "idle"
  /\ qz' = IF ~extracted
           THEN [qz EXCEPT !.pc = "failed", !.response = "error: no text"]
           ELSE [qz EXCEPT !.n = QuizN(num),
                           !.pc = IF (IF computeSpreadDelay(1) > 0
                                      THEN computeSpreadDelay(1) ELSE pause) > 0
                                  THEN "sleeping" ELSE "generating"]

\* line 611: the sleep ends, buildQuiz is called
quizSleepEnds ==
  /\ qz.pc = "sleeping"
  /\ qz' = [qz EXCEPT !.pc = "generating"]

\* lines 615-631: buildQuiz returns out.questions = list
quizReturns(list) ==
  /\ qz.pc = "generating"
  /\ LET uniq == Sanitize(list, qz.n, {}, <<>>)
     IN  qz' = IF NoneValid(uniq)
               THEN [qz EXCEPT !.pc = "failed", !.raw = list,
                               !.response = "error: no valid question"]
               ELSE [qz EXCEPT !.pc = "done", !.raw = list,
                               !.questions = uniq, !.response = "ok"]

\* lines 632-633: buildQuiz throws (askOpenAI_JSON failed, or line 459)
quizThrows ==
  /\ qz.pc = "generating"
  /\ HAS_OPENAI
  /\ qz' = [qz EXCEPT !.pc = "failed", !.response = "error: generation"]

\* -------------------------------------------------------------- flashcards
\* the words of a text once line 249 has replaced every other character by a
\* blank and split at blanks; a word is known by its letters and their number
WordPool == {[w |-> "fotosintesi", len |-> 11], [w |-> "cellula", len |-> 7],
             [w |-> "acqua", len |-> 5]}
Texts == UNION {[1..k -> WordPool] : k \in 0..MaxWords}

\* req.body.num of a flashcard request
FlashNumInputs == {"absent", "0", "2", "25", "x"}

\* line 587: Math.max(1, Math.min(parseInt(req.body.num || '12', 10), 60))
FlashN(num) ==
  MathMax(Num(1), MathMin(parseInt(IF num = "absent" THEN "12" ELSE num), Num(60)))

\* line 249: Array.from(new Set(...)) keeps the first occurrence of each word
RECURSIVE Distinct(_, _)
Distinct(s, seen) ==
  IF s = <<>> THEN <<>>
  ELSE IF Head(s) \in seen THEN Distinct(Tail(s), seen)
       ELSE <<Head(s)>> \o Distinct(Tail(s), seen \cup {Head(s)})

\* line 249: the distinct words of more than 6 letters, at most 100 of them
LongWords(text) ==
  LET ws == Distinct(SelectSeq(text, LAMBDA x : x.len > 6), {})
  IN  SubSeq(ws, 1, IF Len(ws) < 100 THEN Len(ws) ELSE 100)

\* line 251: i < Math.min(n, 20); no iteration when the bound is NaN
FlashLimitNone(n) == IF n.nan THEN 0 ELSE n.v
FlashLimit(n) == IF MathMin(n, Num(20)).nan THEN 0 ELSE MathMin(n, Num(20)).v

\* line 252: words[i] || `Concetto ${i+1}`
TermOf(words, i) ==
  IF i <= Len(words) THEN [kind |-> "word", w |-> words[i].w, i |-> i]
  ELSE [kind |-> "Concetto", w |-> "", i |-> i]

\* lines 248-256: dummyFlashcards
dummyFlashcards(text, n) ==
  [i \in 1..FlashLimit(n) |->
     [front |-> TermOf(LongWords(text), i),
      back |-> <<"Definizione sintetica di", TermOf(LongWords(text), i)>>,
      difficulty |-> "media", tags |-> <<>>]]

FcIdle == [pc |-> "idle", text |-> <<>>, n |-> Num(0), asked |-> 0,
           cards |-> <<>>, response |-> "none"]
FcInit == fc = FcIdle

\* lines 375-376, 595-597: buildFlashcards is called; without a backend it
\* returns the cards of dummyFlashcards and the route answers at once
buildFlashcardsCalled(F) ==
  IF Unconfigured(HAS_OPENAI)
  THEN [F EXCEPT !.pc = "done", !.cards = dummyFlashcards(F.text, F.n),
                 !.response = "ok"]
  ELSE [F EXCEPT !.pc = "generating", !.asked = @ + 1]

\* lines 583-595: POST /api/flashcards; line 541 throws on a PDF without
\* text, and line 591 sleeps when CHUNK_PAUSE_MS > 0 (computeSpreadDelay is 0)
postFlashcards(num, text, pause) ==
  /\ fc.pc = "idle"
  /\ LET F == [fc EXCEPT !.text = text, !.n = FlashN(num)]
     IN  fc' = IF text = <<>>
               THEN [fc EXCEPT !.pc = "failed", !.response = "error: no text"]
               ELSE IF (IF computeSpreadDelay(Len(text)) > 0
                        THEN computeSpreadDelay(Len(text)) ELSE pause) > 0
                    THEN [F EXCEPT !.pc = "sleeping"]
                    ELSE buildFlashcardsCalled(F)

\* line 591: the sleep ends, buildFlashcards is called
flashSleepEnds ==
  /\ fc.pc = "sleeping"
  /\ fc' = buildFlashcardsCalled(fc)

\* lines 412-414, 597: askOpenAI_JSON returns out with k cards
flashReturns(k) ==
  /\ fc.pc = "generating"
  /\ fc' = [fc EXCEPT !.pc = "done", !.response = "ok",
                      !.cards = [i \in 1..k |->
                                   [front |-> [kind |-> "model", w |-> "", i |-> i],
                                    back |-> <<"model", [kind |-> "model", w |-> "", i |-> i]>>,
                                    difficulty |-> "media", tags |-> <<>>]]]

\* lines 598-599: buildFlashcards throws (askOpenAI_JSON failed, or line 413)
flashThrows ==
  /\ fc.pc = "generating"
  /\ fc' = [fc EXCEPT !.pc = "failed", !.response = "error: generation"]

\* ----------------------------------------------------- safeJSON on a text
\* A text is the sequence of its lexical pieces: "{" "}" "[" "]", "1" (a JSON
\* scalar), "x" (a word that is not JSON), "nl" (a newline, white space),
\* "F" (a fence of three backticks), "j" / "J" (the label json / JSON).
BodyPieces == {"{", "}", "[", "]", "1", "x"}
Bodies == UNION {[1..k -> BodyPieces] : k \in 0..MaxBody}
Befores == {<<>>, <<"x">>, <<"x", "nl">>}
Opens == {<<>>, <<"F", "j">>, <<"F", "J", "nl">>, <<"F", "nl">>}
Closes == {<<>>, <<"F">>, <<"nl", "F">>}
Afters == {<<>>, <<"x">>, <<"}">>}
JsonTexts ==
  {b \o o \o m \o c \o a :
     b \in Befores, o \in Opens, m \in Bodies, c \in Closes, a \in Afters}

WhiteSpace == {"nl"}
NotWhite(ch) == ch \notin WhiteSpace
NotFence(ch) == ch # "F"

\* JSON.parse: one scalar, or an object / array that is empty or holds one
\* value; white space between the pieces is skipped.  The value parsed is
\* named by its pieces.
RECURSIVE IsJsonValue(_)
IsJsonValue(s) ==
  \/ s = <<"1">>
  \/ /\ Len(s) >= 2
     /\ \/ s[1] = "{" /\ s[Len(s)] = "}"
        \/ s[1] = "[" /\ s[Len(s)] = "]"
     /\ Len(s) = 2 \/ IsJsonValue(SubSeq(s, 2, Len(s) - 1))

JSONparse(s) ==
  LET t == SelectSeq(s, NotWhite)
  IN  IF IsJsonValue(t) THEN [kind |-> "ok", val |-> t, err |-> "none"]
      ELSE [kind |-> "err", val |-> <<>>, err |-> "parse"]

\* indexOf / lastIndexOf, 1-based, 0 when absent
IndexOf(s, ch) ==
  IF \E k \in 1..Len(s) : s[k] = ch
  THEN CHOOSE k \in 1..Len(s) : s[k] = ch /\ \A m \in 1..(k - 1) : s[m] # ch
  ELSE 0
LastIndexOf(s, ch) ==
  IF \E k \in 1..Len(s) : s[k] = ch
  THEN CHOOSE k \in 1..Len(s) : s[k] = ch /\ \A m \in (k + 1)..Len(s) : s[m] # ch
  ELSE 0

\* line 211: s.match(/```json\s*([\s\S]*?)```/i): the first fence followed by
\* the label and, later, by another fence
FenceOpen(s) ==
  LET P == {k \in 1..(Len(s) - 2) :
              /\ s[k] = "F"
              /\ s[k + 1] \in {"j", "J"}
              /\ \E m \in (k + 2)..Len(s) : s[m] = "F"}
  IN  IF P = {} THEN 0 ELSE CHOOSE k \in P : \A m \in P : k <= m

RECURSIVE SkipWhite(_, _)
SkipWhite(s, k) == IF k <= Len(s) /\ s[k] \in WhiteSpace THEN SkipWhite(s, k + 1) ELSE k

\* m[1]: after the label and the white space, up to the next fence
FencedContent(s) ==
  LET o == FenceOpen(s)
      b == SkipWhite(s, o + 2)
      e == CHOOSE m \in b..Len(s) : s[m] = "F" /\ \A n \in b..(m - 1) : s[n] # "F"
  IN  SubSeq(s, b, e - 1)

\* line 213: replace(/^```[\s\S]*?```$/gm, ...): a fence that starts a line,
\* up to the nearest fence that ends a line, loses its backticks
LineStart(s, k) == k = 1 \/ s[k - 1] = "nl"
LineEnd(s, k) == k = Len(s) \/ s[k + 1] = "nl"
ClosingFence(s, k) ==
  LET P == {m \in (k + 1)..Len(s) : s[m] = "F" /\ LineEnd(s, m)}
  IN  IF P = {} THEN 0 ELSE CHOOSE m \in P : \A n \in P : m <= n

RECURSIVE StripFences(_, _)
StripFences(s, k) ==
  IF k > Len(s) THEN <<>>
  ELSE IF s[k] = "F" /\ LineStart(s, k) /\ ClosingFence(s, k) # 0
       THEN SelectSeq(SubSeq(s, k, ClosingFence(s, k)), NotFence)
              \o StripFences(s, ClosingFence(s, k) + 1)
       ELSE <<s[k]>> \o StripFences(s, k + 1)

\* line 220: the first of '{' and '[' (0: neither)
FirstOpen(s) ==
  LET start == IndexOf(s, "{")
      startArr == IndexOf(s, "[")
  IN  IF start = 0 THEN startArr
      ELSE IF startArr = 0 THEN start
      ELSE MinOf(start, startArr)

\* lines 224-226: Math.max(lastObj, lastArr)
LastCloseObjOnly(c) == LastIndexOf(c, "}")
LastClose(c) ==
  IF LastIndexOf(c, "}") > LastIndexOf(c, "]")
  THEN LastIndexOf(c, "}") ELSE LastIndexOf(c, "]")

\* line 215: try { return JSON.parse(s); } catch(e) {}
DirectParse(s) == JSONparse(s)

\* lines 209-230: safeJSON on the pieces of a text
safeJSONText(text) ==
  IF text = <<>> THEN [kind |-> "err", val |-> <<>>, err |-> "empty"]
  ELSE LET s == StripFences(IF FenceOpen(text) # 0 THEN FencedContent(text)
                            ELSE text, 1)
       IN  IF DirectParse(s).kind = "ok" THEN DirectParse(s)
           ELSE IF FirstOpen(s) = 0
                THEN [kind |-> "err", val |-> <<>>, err |-> "nojson"]
                ELSE LET c0 == SubSeq(s, FirstOpen(s), Len(s))
                         c  == IF LastClose(c0) # 0
                               THEN SubSeq(c0, 1, LastClose(c0)) ELSE c0
                     IN  JSONparse(c)

SjIdle == [pc |-> "idle", text |-> <<>>,
           out |-> [kind |-> "none", val |-> <<>>, err |-> "none"]]
SjInit == sj = SjIdle

\* line 331: safeJSON(txt) is applied to the text of a response
parseText(text) ==
  /\ sj.pc = "idle"
  /\ sj' = [pc |-> "returned", text |-> text, out |-> safeJSONText(text)]

\* ------------------------------------------------------- chunkText on a text
Letters == {"a", "b"}
ChunkTexts == UNION {[1..k -> Letters] : k \in 0..MaxText}

\* String.prototype.slice(a, b) with 0 <= a <= b: b is cut to the length
slice(txt, a, b) == SubSeq(txt, a + 1, MinOf(b, Len(txt)))

\* lines 151-154: the pushes of the loop, from position i on
RECURSIVE pushesFromSkipping(_, _, _)
pushesFromSkipping(i, txt, max) ==
  IF i < Len(txt)
  THEN <<slice(txt, i, i + max)>> \o pushesFromSkipping(i + max + 1, txt, max)
  ELSE <<>>
RECURSIVE pushesFrom(_, _, _)
pushesFrom(i, txt, max) ==
  IF i < Len(txt)
  THEN <<slice(txt, i, i + max)>> \o pushesFrom(i + max, txt, max)
  ELSE <<>>

CkInit == ck = [txt |-> <<>>, max |-> 0, chunks |-> <<>>, calls |-> 0]

\* lines 147-156: chunkText(txt, max) is called and returns chunks
chunkTextCalled(txt, max) ==
  /\ ck.calls = 0
  /\ ck' = [txt |-> txt, max |-> max, chunks |-> pushesFrom(0, txt, max),
            calls |-> 1]

\* ---------------------------------------------------------------- OCR fallback
\* the text an OCR response carries, as collectResponseText joins it (lines
\* 126-145): none, blanks only, or words with blanks around and between them
OcrTexts == {"", "  ", " x  y "}
\* a string is the sequence of its characters
OcrChars(s) ==
  CASE s = "" -> <<>>
    [] s = "  " -> <<" ", " ">>
    [] OTHER -> <<" ", "x", " ", " ", "y", " ">>

\* line 123: runs of white space become one blank, then trim
RECURSIVE Squeeze(_)
Squeeze(s) ==
  IF Len(s) < 2 THEN s
  ELSE IF s[1] \in Blanks /\ s[2] \in Blanks THEN Squeeze(Tail(s))
  ELSE <<s[1]>> \o Squeeze(Tail(s))
cleanText(t) == IF t = <<>> THEN <<>> ELSE Trim(Squeeze(t))

NoOcrOutcome == [kind |-> "none", text |-> <<>>, err |-> "none"]
OcrText(t) == [kind |-> "text", text |-> t, err |-> "none"]
OcrError(e) == [kind |-> "err", text |-> <<>>, err |-> e]

\* lines 196-200: what the try block makes of the settled response promise
OcrOutcomeOf(st, resp) ==
  IF st = "rejected" THEN OcrError("response")
  ELSE IF Trim(cleanText(OcrChars(resp))) = <<>> THEN OcrError("empty")
  ELSE OcrText(slice(Trim(cleanText(OcrChars(resp))), 0, MAX_INPUT_CHARS))

OcrIdle == [pc |-> "idle", task |-> 0, file |-> FALSE, resp |-> "",
            outcome |-> NoOcrOutcome, result |-> NoOcrOutcome,
            calls |-> <<>>, delFailed |-> FALSE, n429 |-> 0]
OInit == ocr = OcrIdle

\* lines 167, 175, 203: the upstream operation of the task runPdfOCR awaits
OcrOp(pc) ==
  CASE pc = "upload" -> "files.create"
    [] pc = "response" -> "responses.create"
    [] OTHER -> "files.del"

OcrCalled(O, t) == [O EXCEPT !.calls = Append(@, [op |-> OcrOp(O.pc), task |-> t])]

\* lines 165-167, 174-175, 202-203: the function of queued task t starts; the
\* upload and the response call pass the rate gate and go through
\* withRetries, the deletion calls openai.files.del at once
OcrTaskStart(t, O) ==
  IF O.pc = "deletion"
  THEN /\ ocr' = OcrCalled(O, t)
       /\ UNCHANGED <<tvars, wr>>
  ELSE /\ throttleEnter(1, timer)
       /\ IF Gate.sleeps
          THEN /\ ocr' = O
               /\ wr' = wr
          ELSE /\ ocr' = OcrCalled(O, t)
               /\ wr' = [wr EXCEPT ![1] = WrStart(DefaultRetries, DefaultBase)]

\* lines 20-24 with the start of the dispatched task
OcrDispatch(q, O) ==
  /\ Pump(q)
  /\ IF PumpBlocked(_active, q)
     THEN /\ ocr' = O
          /\ UNCHANGED <<tvars, wr>>
     ELSE OcrTaskStart(ShiftEntry(q), O)

\* line 28: runPdfOCR hands its next task to runQueued
OcrSubmit(O) ==
  LET t == Len(submitOrder) + 1
  IN  /\ t \in Tasks
      /\ submitOrder' = Append(submitOrder, t)
      /\ OcrDispatch(Append(_queue, t), [O EXCEPT !.task = t])
      /\ UNCHANGED <<OPENAI_CONCURRENCY, immediates, fnResult, promise>>

OcrThrows(O, e) == [O EXCEPT !.pc = "failed", !.result = OcrError(e)]

\* lines 158-165: runPdfOCR is called; OCR_ENABLED (line 100) is en
runPdfOCR(en) ==
  /\ ocr.pc = "idle"
  /\ IF ~en
     THEN /\ ocr' = OcrThrows(ocr, "disabled")
          /\ UNCHANGED <<qvars, tvars, wr>>
     ELSE IF Unconfigured(HAS_OPENAI)
     THEN /\ ocr' = OcrThrows(ocr, "config")
          /\ UNCHANGED <<qvars, tvars, wr>>
     ELSE OcrSubmit([ocr EXCEPT !.pc = "upload"])
  /\ UNCHANGED <<gvars, sm, qz, fc, sj, ck>>

\* lines 39-42 and 167, 175: the gate's sleep ends and the call goes out
OcrGateWake ==
  /\ ocr.pc \in {"upload", "response"}
  /\ tstate[ocr.task] = "running"
  /\ throttleWake(1)
  /\ wr' = [wr EXCEPT ![1] = WrStart(DefaultRetries, DefaultBase)]
  /\ ocr' = OcrCalled(ocr, ocr.task)
  /\ UNCHANGED <<qvars, gvars, sm, qz, fc, sj, ck>>

\* lines 167-170, 175-193: the upstream call of the task settles with o
OcrUpstreamSettles(o, j) ==
  /\ ocr.pc \in {"upload", "response"}
  /\ wr[1].pc = "awaiting"
  /\ LET w == WrSettle(wr[1], o, j)
         O == [ocr EXCEPT !.n429 = IF o.kind = "err" /\ StatusOf(o) = 429
                                   THEN @ + 1 ELSE @]
     IN  /\ wr' = [wr EXCEPT ![1] = w]
         /\ CASE w.pc = "sleeping" ->
                   /\ timer' = [timer EXCEPT ![1] = now + w.sleepMs]
                   /\ ocr' = O
                   /\ UNCHANGED <<qvars, OPENAI_RPM, now, _winStart,
                                  _reqInWindow, tpc, admissions, wakes>>
              [] w.pc = "thrown" ->
                   /\ FnSettle(ocr.task, "err", "upstream")
                   /\ ocr' = O
                   /\ UNCHANGED tvars
              [] w.pc = "returned" ->
                   /\ FnSettle(ocr.task, "ok", "")
                   /\ ocr' = [O EXCEPT !.resp = IF ocr.pc = "response"
                                                THEN o.val ELSE @]
                   /\ UNCHANGED tvars
  /\ UNCHANGED <<gvars, sm, qz, fc, sj, ck>>

\* lines 53-54: the backoff inside withRetries ends and the call is repeated
OcrBackoffEnds ==
  /\ ocr.pc \in {"upload", "response"}
  /\ backoffDone(1)
  /\ ocr' = OcrCalled(ocr, ocr.task)
  /\ UNCHANGED <<qvars, gvars, sm, qz, fc, sj, ck, OPENAI_RPM, now, _winStart,
                 _reqInWindow, tpc, admissions, wakes>>

\* lines 203-204: the try/catch inside the deletion task: its function
\* resolves whether openai.files.del succeeded or not
DelTaskKindThrows(ok) == IF ok THEN "ok" ELSE "err"
DelTaskKind(ok) == "ok"

\* lines 202-205: openai.files.del settles
OcrDelSettles(ok) ==
  /\ ocr.pc = "deletion"
  /\ tstate[ocr.task] = "running"
  /\ FnSettle(ocr.task, DelTaskKind(ok), "")
  /\ ocr' = [ocr EXCEPT !.delFailed = ~ok]
  /\ UNCHANGED <<tvars, rvars, gvars, sm, qz, fc, sj, ck>>

\* lines 24-26: _pump resumes and settles the promise runPdfOCR awaits
OcrPumpResume ==
  /\ ocr.pc \in {"upload", "response", "deletion"}
  /\ PumpResume(ocr.task)
  /\ UNCHANGED <<tvars, rvars, gvars, pvars>>

\* runPdfOCR has a settled promise to resume on
OcrResumable ==
  /\ ocr.pc \in {"upload", "response", "deletion"}
  /\ promise[ocr.task].st # "pending"

\* lines 165, 173-206: runPdfOCR resumes after an await.  A failed upload
\* leaves the function (line 165 is outside the try); after the response
\* call the try block ends with a text or an error and the finally block
\* queues the deletion; after the deletion the function ends as the try
\* block did, unless the awaited deletion task itself rejected
OcrContinue ==
  /\ OcrResumable
  /\ LET st == promise[ocr.task].st
     IN  CASE ocr.pc = "upload" /\ st = "rejected" ->
                /\ ocr' = OcrThrows(ocr, "upload")
                /\ UNCHANGED <<qvars, tvars, wr>>
           [] ocr.pc = "upload" /\ st = "resolved" ->
                OcrSubmit([ocr EXCEPT !.pc = "response", !.file = TRUE])
           [] ocr.pc = "response" ->
                OcrSubmit([ocr EXCEPT !.pc = "deletion",
                                      !.outcome = OcrOutcomeOf(st, ocr.resp)])
           [] ocr.pc = "deletion" ->
                /\ ocr' = IF st = "rejected" THEN OcrThrows(ocr, "cleanup")
                          ELSE [ocr EXCEPT !.pc = IF ocr.outcome.kind = "text"
                                                  THEN "done" ELSE "failed",
                                           !.result = ocr.outcome]
                /\ UNCHANGED <<qvars, tvars, wr>>
  /\ UNCHANGED <<gvars, sm, qz, fc, sj, ck>>

\* line 26: the callback of setImmediate runs, after the pending promise
\* reactions (microtasks) have run
OcrPumpImmediate ==
  /\ immediates > 0
  /\ ~OcrResumable
  /\ \A t \in Tasks : tstate[t] # "fnSettled"
  /\ immediates' = immediates - 1
  /\ OcrDispatch(_queue, ocr)
  /\ UNCHANGED <<OPENAI_CONCURRENCY, fnResult, promise, submitOrder, gvars,
                 sm, qz, fc, sj, ck>>

\* ---------------------------------------------------------------- start-up
\* the state once the module has been loaded (lines 9-57)
Init ==
  /\ QInit
  /\ TInit
  /\ RInit
  /\ GInit
  /\ SInit
  /\ QzInit
  /\ FcInit
  /\ SjInit
  /\ CkInit
  /\ OInit

\* --------------------------------------- the gate on its own (ThrottleSpec)
InGate == {c \in Callers : tpc[c] = "sleeping"}
ThrottleCalls ==
  /\ Len(admissions) + Cardinality(InGate) < MaxAdmissions
  /\ \E c \in Callers : throttleRPM(c)
  /\ UNCHANGED <<qvars, rvars, gvars, pvars>>
ThrottleWakes == (\E c \in Callers : throttleWake(c)) /\ UNCHANGED <<qvars, rvars, gvars, pvars>>
Ticks == (\E d \in TimeSteps : Tick(d)) /\ UNCHANGED <<qvars, rvars, gvars, pvars>>

TNext ==
  \/ ThrottleCalls
  \/ ThrottleWakes
  \/ Ticks

ThrottleSpec == Init /\ [][TNext]_vars

\* ------------------------------------ withRetries on its own (RetrySpec)
\* invocations share no state, so one caller shows all there is to see
RetryCalls ==
  /\ \E r \in RetryOptions, b \in BaseOptions : withRetries(1, r, b)
  /\ UNCHANGED <<qvars, tvars, gvars, pvars>>
RetryFnSettles ==
  /\ \E o \in FnOutcomes(wr[1].calls) : fnSettles(1, o)
  /\ UNCHANGED <<qvars, gvars, pvars, OPENAI_RPM, now, _winStart, _reqInWindow, tpc, admissions, wakes>>
RetryBackoffDone ==
  /\ backoffDone(1)
  /\ UNCHANGED <<qvars, gvars, pvars, OPENAI_RPM, now, _winStart, _reqInWindow, tpc, admissions, wakes>>

RNext ==
  \/ RetryCalls
  \/ RetryFnSettles
  \/ RetryBackoffDone
  \/ Ticks

RetrySpec == Init /\ [][RNext]_vars

\* ----------------------------- generation requests end to end (GenSpec)
GenCalls == \E r \in Reqs, cfg \in AttemptCfgs : askOpenAI_JSON(r, cfg)
GenSummaries == \E r \in Reqs, cfg \in AttemptCfgs : buildSummary(r, cfg)
GenFlashcards == \E r \in Reqs, cfg \in AttemptCfgs : buildFlashcards(r, cfg)
GenQuizzes == \E r \in Reqs, cfg \in AttemptCfgs : buildQuiz(r, cfg)
GenGateWakes == \E r \in Reqs : GateWake(r)
\* the upstream behaviours a run draws from: every kind of response, a
\* rate-limit rejection, a schema-mode rejection and an authentication error
GenErrors == {e \in ErrorShapes : e.status \in {429, 401} \/ e.rf}
GenOutcomes(n) ==
  {OkOutcome(v, n) : v \in Responses} \cup {ErrOutcome(e, n) : e \in GenErrors}
GenJitters == {0}        \* the draws of Math.random() a run takes
GenUpstreamSettles ==
  \E r \in Reqs : \E o \in GenOutcomes(wr[r].calls), j \in GenJitters :
    /\ (o.kind = "err" /\ StatusOf(o) = 429) => ask[r].n429 < Max429
    /\ (o.kind = "err" /\ o.rf) => ask[r].nRejects < MaxSchemaRejects
    /\ UpstreamSettles(r, o, j)

\* time passes while everything sleeps: up to the next timer
TimerTick ==
  /\ ArmedTimers # {}
  /\ NoTimerDue
  /\ now' = Earliest(ArmedTimers)
  /\ UNCHANGED <<OPENAI_RPM, _winStart, _reqInWindow, tpc, timer, admissions, wakes>>
  /\ UNCHANGED <<qvars, rvars, gvars, pvars>>
GenBackoffEnds == \E r \in Reqs : BackoffEnds(r)
GenPauseEnds == \E r \in Reqs : PauseEnds(r)
GenPumpResumes == \E r \in Reqs : GenPumpResume(r)

GNext ==
  \/ GenCalls
  \/ GenSummaries
  \/ GenFlashcards
  \/ GenQuizzes
  \/ GenGateWakes
  \/ GenUpstreamSettles
  \/ GenBackoffEnds
  \/ GenPauseEnds
  \/ GenPumpResumes
  \/ GenPumpImmediate
  \/ TimerTick

GenSpec == Init /\ [][GNext]_vars

\* every upstream call returns or fails, every sleep ends, microtasks and
\* immediates do run
FairGenSpec ==
  /\ GenSpec
  /\ WF_vars(GenUpstreamSettles)
  /\ WF_vars(GenGateWakes)
  /\ WF_vars(GenBackoffEnds)
  /\ WF_vars(GenPauseEnds)
  /\ WF_vars(GenPumpResumes)
  /\ WF_vars(GenPumpImmediate)
  /\ WF_vars(TimerTick)

\* --------------------------------- the summary route (SummarySpec)
PostSummaries ==
  (\E L \in TextLens, p \in PauseCfgs, sd \in BOOLEAN : postSummary(L, p, sd))
  /\ UNCHANGED <<qvars, tvars, rvars, gvars, qz, fc, sj, ck, ocr>>
SummarySleepEnds == summarySleepEnds /\ UNCHANGED <<qvars, tvars, rvars, gvars, qz, fc, sj, ck, ocr>>
SummaryReturns == summaryReturns /\ UNCHANGED <<qvars, tvars, rvars, gvars, qz, fc, sj, ck, ocr>>
SummaryThrows == summaryThrows /\ UNCHANGED <<qvars, tvars, rvars, gvars, qz, fc, sj, ck, ocr>>

SNext ==
  \/ PostSummaries
  \/ SummarySleepEnds
  \/ SummaryReturns
  \/ SummaryThrows

SummarySpec == Init /\ [][SNext]_vars

\* ------------------- the summary route of src/server.js (ServerSummarySpec)
PostSummariesServer ==
  (\E L \in TextLens : postSummaryServer(L))
  /\ UNCHANGED <<qvars, tvars, rvars, gvars, qz, fc, sj, ck, ocr>>

SsNext ==
  \/ PostSummariesServer
  \/ SummarySleepEnds
  \/ SummaryReturns
  \/ SummaryThrows

ServerSummarySpec == Init /\ [][SsNext]_vars

\* --------------------------------------- the quiz route (QuizSpec)
PostQuizzes ==
  (\E num \in NumInputs, x \in BOOLEAN, p \in PauseCfgs : postQuiz(num, x, p))
  /\ UNCHANGED <<qvars, tvars, rvars, gvars, sm, fc, sj, ck, ocr>>
QuizSleepEnds == quizSleepEnds /\ UNCHANGED <<qvars, tvars, rvars, gvars, sm, fc, sj, ck, ocr>>
QuizReturns ==
  /\ qz.pc = "generating"
  /\ IF HAS_OPENAI
     THEN \E list \in GenLists : quizReturns(list)
     ELSE \E s \in SentenceCounts : quizReturns(dummyQuiz(s, qz.n))
  /\ UNCHANGED <<qvars, tvars, rvars, gvars, sm, fc, sj, ck, ocr>>
QuizThrows == quizThrows /\ UNCHANGED <<qvars, tvars, rvars, gvars, sm, fc, sj, ck, ocr>>

QzNext ==
  \/ PostQuizzes
  \/ QuizSleepEnds
  \/ QuizReturns
  \/ QuizThrows

QuizSpec == Init /\ [][QzNext]_vars

\* --------------------------------- the flashcard route (FlashSpec)
PostFlashcards ==
  (\E num \in FlashNumInputs, text \in Texts, p \in PauseCfgs :
     postFlashcards(num, text, p))
  /\ UNCHANGED <<qvars, tvars, rvars, gvars, sm, qz, sj, ck, ocr>>
FlashSleepEnds == flashSleepEnds /\ UNCHANGED <<qvars, tvars, rvars, gvars, sm, qz, sj, ck, ocr>>
FlashReturns ==
  (\E k \in 0..2 : flashReturns(k)) /\ UNCHANGED <<qvars, tvars, rvars, gvars, sm, qz, sj, ck, ocr>>
FlashThrows == flashThrows /\ UNCHANGED <<qvars, tvars, rvars, gvars, sm, qz, sj, ck, ocr>>

FcNext ==
  \/ PostFlashcards
  \/ FlashSleepEnds
  \/ FlashReturns
  \/ FlashThrows

FlashSpec == Init /\ [][FcNext]_vars

\* ------------------------------------- safeJSON on its own (JsonSpec)
ParseTexts ==
  /\ sj.pc = "idle"
  /\ \E text \in JsonTexts : parseText(text)
  /\ UNCHANGED <<qvars, tvars, rvars, gvars, sm, qz, fc, ck, ocr>>

JNext == ParseTexts

JsonSpec == Init /\ [][JNext]_vars

\* ------------------------------------- chunkText on its own (ChunkSpec)
ChunkCalls ==
  /\ ck.calls = 0
  /\ (\E txt \in ChunkTexts, max \in 1..MaxChunk : chunkTextCalled(txt, max))
  /\ UNCHANGED <<qvars, tvars, rvars, gvars, sm, qz, fc, sj, ocr>>

CNext == ChunkCalls

ChunkSpec == Init /\ [][CNext]_vars

\* ------------------------------------------- the queue on its own (Spec)
Submits == (\E t \in Tasks : runQueued(t)) /\ UNCHANGED <<tvars, rvars, gvars, pvars>>
FnSettles ==
  (\E t \in Tasks, k \in Kinds, v \in Vals : FnSettle(t, k, v)) /\ UNCHANGED <<tvars, rvars, gvars, pvars>>
PumpResumes == (\E t \in Tasks : PumpResume(t)) /\ UNCHANGED <<tvars, rvars, gvars, pvars>>
PumpImmediates == PumpImmediate /\ UNCHANGED <<tvars, rvars, gvars, pvars>>

QNext ==
  \/ Submits
  \/ FnSettles
  \/ PumpResumes
  \/ PumpImmediates

Spec == Init /\ [][QNext]_vars

\* every dispatched task completes; microtasks and immediates do run
FairSpec ==
  /\ Spec
  /\ WF_vars(FnSettles)
  /\ WF_vars(PumpResumes)
  /\ WF_vars(PumpImmediates)

\* ---- the OCR fallback: one run of runPdfOCR
\* the upstream behaviours a run draws from: a file or a response with one
\* of the texts, a rate-limit rejection and an authentication error
OcrErrors == {e \in ErrorShapes : e.status \in {429, 401}}
OcrOutcomes(pc, n) ==
  {OkOutcome(v, n) : v \in IF pc = "response" THEN OcrTexts ELSE {"file"}}
    \cup {ErrOutcome(e, n) : e \in OcrErrors}
OcrCalls == \E en \in BOOLEAN : runPdfOCR(en)
OcrUpstream ==
  \E o \in OcrOutcomes(ocr.pc, wr[1].calls), j \in GenJitters :
    /\ (o.kind = "err" /\ StatusOf(o) = 429) => ocr.n429 < Max429
    /\ OcrUpstreamSettles(o, j)
OcrDeletion == \E ok \in BOOLEAN : OcrDelSettles(ok)

\* what happens without a new request
OcrRuns ==
  \/ OcrGateWake
  \/ OcrUpstream
  \/ OcrBackoffEnds
  \/ OcrDeletion
  \/ OcrPumpResume
  \/ OcrContinue
  \/ OcrPumpImmediate
  \/ TimerTick

ONext == OcrCalls \/ OcrRuns

OcrSpec == Init /\ [][ONext]_vars

\* every upstream call settles, every sleep ends, promise reactions and
\* immediates do run
FairOcrSpec == OcrSpec /\ WF_vars(OcrRuns)

\* ================================================================ claims
\* ------------------------------------------------------------ queue claims
Running == {t \in Tasks : tstate[t] = "running"}
Dispatched(t) == t \in Range(dispatchOrder)
PosIn(s, x) == CHOOSE k \in 1..Len(s) : s[k] = x

\* C1: 0 <= _active <= C in every reachable state, and the number of tasks
\* whose function has been started but has not yet settled never exceeds C.
C1_ActiveWithinLimit ==
  /\ _active \in 0..OPENAI_CONCURRENCY
  /\ Cardinality(Running) <= OPENAI_CONCURRENCY

\* C1 witness: the limit is reached while an entry waits, after a completion
C1_Witness ==
  /\ _active = OPENAI_CONCURRENCY
  /\ Cardinality(Running) = OPENAI_CONCURRENCY
  /\ _queue # <<>>
  /\ \E t \in Tasks : tstate[t] = "done"

\* C2: tasks are dispatched in submission order: if a was submitted before b
\* and b's function has been started, a's function was started before b's.
C2_DispatchFIFO ==
  \A i, j \in 1..Len(submitOrder) :
    (i < j /\ Dispatched(submitOrder[j])) =>
      /\ Dispatched(submitOrder[i])
      /\ PosIn(dispatchOrder, submitOrder[i]) < PosIn(dispatchOrder, submitOrder[j])

\* C2 witness: three tasks dispatched, completion order differing from
\* dispatch order (task 2 finished while task 1 still runs)
C2_Witness ==
  /\ Len(dispatchOrder) >= 3
  /\ tstate[1] = "running"
  /\ tstate[2] = "done"

\* C3: when every dispatched task completes, every submitted task is
\* eventually dispatched and its promise eventually settles; a settled
\* promise is resolved with the task's return value when the task succeeded
\* and rejected with the task's error when it failed.
C3_SubmittedEventuallySettles ==
  /\ \A t \in Tasks :
       (tstate[t] # "unsubmitted") ~> (Dispatched(t) /\ promise[t].st # "pending")
  /\ [](\A t \in Tasks :
          promise[t].st # "pending" =>
            /\ fnResult[t].kind \in Kinds
            /\ promise[t].st = "resolved" <=> fnResult[t].kind = "ok"
            /\ promise[t].st = "rejected" <=> fnResult[t].kind = "err"
            /\ promise[t].val = fnResult[t].val)

\* C3 witness: with one slot, the last task waited and both outcomes occurred
C3_Witness ==
  /\ OPENAI_CONCURRENCY = 1
  /\ promise[2].st = "resolved" /\ promise[2].val = "v2"
  /\ promise[3].st = "rejected" /\ promise[3].val = "v1"

\* C4: when a dispatched task fails, its slot is released and dispatch is
\* re-triggered exactly as on success; the failure goes to the failing task's
\* own promise only, and an entry waiting behind it is still dispatched.
C4_SettleStep ==
  \A t \in Tasks :
    (tstate[t] = "fnSettled" /\ tstate'[t] = "done") =>
      /\ _active' = _active - 1
      /\ immediates' = immediates + 1
      /\ \A u \in Tasks \ {t} : promise'[u] = promise[u]
      /\ fnResult[t].kind = "err" =>
           promise'[t] = [st |-> "rejected", val |-> fnResult[t].val]

C4_FailureReleasesSlot ==
  /\ [][C4_SettleStep]_vars
  /\ \A t \in Tasks :
       (tstate[t] = "queued" /\
          \E u \in Tasks : tstate[u] = "fnSettled" /\ fnResult[u].kind = "err")
       ~> Dispatched(t)

\* C4 witness: with one slot, task 1 failed and task 2, which waited behind
\* it, is running while its own promise is untouched
C4_Witness ==
  /\ OPENAI_CONCURRENCY = 1
  /\ promise[1].st = "rejected"
  /\ tstate[2] = "running"
  /\ promise[2] = Pending
  /\ tstate[3] = "queued"

\* --------------------------------------------------------- throttle claims
\* C5: no interval of 60 seconds contains more than OPENAI_RPM admissions:
\* any OPENAI_RPM + 1 admissions span at least 60000 ms.
C5_NoMoreThanRPMPerWindow ==
  \A i, j \in 1..Len(admissions) :
    j - i >= OPENAI_RPM => admissions[j] - admissions[i] >= Window

\* ------------------------------------------------------ withRetries claims
W == wr[1]

\* C6: withRetries retries only on rate-limit failures: once an invocation of
\* fn has failed with an error whose status is not 429, that error has been
\* thrown, no backoff sleep followed it and fn is not invoked again; when it
\* was the first call, fn was invoked exactly once.
C6_OtherErrorsNotRetried ==
  (W.last.kind = "err" /\ StatusOf(W.last) # 429) =>
    /\ W.pc = "thrown"
    /\ W.result = W.last
    /\ W.calls = W.last.id
    /\ W.slept = W.fails
    /\ W.slept = W.calls - 1
    /\ timer[1] = 0
    /\ W.fails = 0 => W.calls = 1

\* C6 witness: a non-429 error after two 429 failures, thrown at once
C6_Witness ==
  /\ W.pc = "thrown"
  /\ W.last.status = 401
  /\ W.fails = 2
  /\ W.calls = 3
  /\ W.retries = 3

\* C7: if fn fails with a 429 error exactly `retries` times and then
\* succeeds, withRetries returns fn's value after exactly retries+1
\* invocations: while every invocation so far failed with 429 and at most
\* `retries` were made, another invocation follows; the success is returned.
C7_SucceedsAfterRetries ==
  /\ (W.pc \notin {"idle", "awaiting"} /\ W.fails = W.calls /\ W.calls <= W.retries)
       => W.pc = "sleeping"
  /\ (W.last.kind = "ok" /\ W.fails = W.retries)
       => /\ W.pc = "returned"
          /\ W.result = W.last
          /\ W.calls = W.retries + 1
          /\ W.last.id = W.retries + 1

\* C7 witness: retries = 3, three 429 failures, then the fourth call succeeds
C7_Witness ==
  /\ W.retries = 3
  /\ W.fails = 3
  /\ W.pc = "returned"
  /\ W.result.val = "json"
  /\ W.calls = 4

\* C8: if fn fails with a 429 error on every call, fn is invoked exactly
\* retries+1 times and withRetries throws the error of the last invocation;
\* fn is never invoked more than retries+1 times.
C8_ExhaustionRethrowsLast ==
  /\ W.calls <= W.retries + 1
  /\ (W.pc = "thrown" /\ StatusOf(W.last) = 429)
       => /\ W.calls = W.retries + 1
          /\ W.fails = W.retries + 1
          /\ W.result = W.last
          /\ W.result.id = W.retries + 1
  /\ (W.fails = W.calls /\ W.calls = W.retries + 1) => W.pc = "thrown"

\* C8 witness: retries = 2, three 429 failures, the third one is thrown
C8_Witness ==
  /\ W.retries = 2
  /\ W.pc = "thrown"
  /\ W.fails = 3
  /\ W.result.code = 429
  /\ W.result.id = 3

\* ------------------------------------------------------- generation claims
G == ask[1]
DecodeErrors == {"parse", "empty", "nojson"}
AllUndecodable ==
  \A k \in 1..Len(G.failures) : G.failures[k].src \in DecodeErrors

\* C9: when decoding the response of attempt k fails and k < maxAttempts, the
\* request waits 150 ms * k and then issues a fresh upstream request for
\* attempt k+1; it never decodes a response of an earlier attempt, and no
\* wait follows the last attempt.
C9_State ==
  HAS_OPENAI =>
    /\ Len(G.pauses) <= Len(G.failures)
    /\ \A k \in 1..Len(G.failures) :
         /\ k < G.attempts => (Len(G.pauses) >= k /\ G.pauses[k] = 150 * k)
         /\ k >= G.attempts => Len(G.pauses) < k
    /\ \A k \in 2..Len(G.startTimes) :
         G.startTimes[k] >= G.failures[k - 1].at + 150 * (k - 1)
    /\ (G.pc = "pause" /\ G.lastErr.src \in DecodeErrors) =>
         /\ G.attempt < G.attempts
         /\ timer[1] = G.failures[G.attempt].at + 150 * G.attempt
         /\ wr[1].pc = "returned"
    /\ \A k \in 1..Len(G.decoded) :
         /\ G.decoded[k].id > G.decoded[k].base
         /\ k > 1 => G.decoded[k].id > G.decoded[k - 1].id
    /\ G.pc \in {"done", "failed"} => timer[1] = 0

C9_Step ==
  (G.pc = "pause" /\ ask'[1] # ask[1]) =>
    /\ now >= timer[1]
    /\ ask'[1].attempt = G.attempt + 1
    /\ ask'[1].pc \in {"gate", "calling"}
    /\ ask'[1].pc = "calling" =>
         /\ ask'[1].upstream = G.upstream + 1
         /\ ask'[1].mode = "schema"
         /\ wr'[1].pc = "awaiting"
         /\ wr'[1].calls = 1

C9_PauseThenFreshRequest == []C9_State /\ [][C9_Step]_vars

\* C9 witness: attempts 1 and 2 failed to decode, the pauses were 150 and
\* 300 ms, and the call of attempt 3 is out
C9_Witness ==
  /\ G.attempts = 3
  /\ G.attempt = 3
  /\ G.pc = "calling"
  /\ G.pauses = <<150, 300>>
  /\ G.failures[1].src = "parse"
  /\ G.failures[2].src = "nojson"

\* C10: a request whose every attempt yields undecodable output makes exactly
\* maxAttempts attempts and then fails with the error of the last attempt; it
\* never returns a value, and never fails before the attempts are used up.
C10_UndecodableFailsAfterAllAttempts ==
  (HAS_OPENAI /\ G.pc # "idle") =>
    /\ G.attempts >= 1
    /\ G.attempt <= G.attempts
    /\ Len(G.failures) <= G.attempts
    /\ (AllUndecodable /\ Len(G.failures) < G.attempts) => G.pc # "failed"
    /\ (AllUndecodable /\ Len(G.failures) = G.attempts) =>
         /\ G.pc = "failed"
         /\ G.attempt = G.attempts
         /\ Len(G.decoded) = G.attempts
         /\ G.lastErr.attempt = G.attempts
         /\ G.lastErr.src = G.failures[G.attempts].src
         /\ G.lastErr.out = wr[1].last
         /\ G.result = [kind |-> "err", val |-> <<G.lastErr.src, G.attempts>>]
         /\ fnResult[1] = G.result
         /\ promise[1].st # "resolved"
         /\ promise[1].st = "rejected" => promise[1].val = G.result.val

\* C10 witness: three attempts, all undecodable, and the caller's promise is
\* rejected with the error of the third
C10_Witness ==
  /\ G.attempts = 3
  /\ AllUndecodable
  /\ Len(G.failures) = 3
  /\ promise[1] = [st |-> "rejected", val |-> <<"empty", 3>>]

\* C11: in a generation request an upstream failure that is neither a
\* rate-limit rejection nor a decoding failure propagates at once: the request
\* has failed, and no pause or further upstream call follows it.
C11_OtherUpstreamFailurePropagates ==
  (G.lastErr.src = "upstream" /\ StatusOf(G.lastErr.out) # 429) =>
    G.pc = "failed"

\* C12: without a backend no generation request reaches the queue, the gate
\* or withRetries: the queue, _active, the scheduled pumps, _winStart,
\* _reqInWindow, the admissions and every withRetries invocation stay as they
\* were at start-up, whatever number of requests is served.
C12_State ==
  ~HAS_OPENAI =>
    /\ _queue = <<>>
    /\ _active = 0
    /\ submitOrder = <<>>
    /\ _reqInWindow = 0
    /\ admissions = <<>>
    /\ \A c \in Callers : wr[c] = WrIdle /\ tpc[c] = "idle"
    /\ \A r \in Reqs : ask[r].upstream = 0

C12_Step ==
  ~HAS_OPENAI =>
    UNCHANGED <<_queue, _active, immediates, _winStart, _reqInWindow, wr>>

C12_FallbackLeavesSchedulerAlone == []C12_State /\ [][C12_Step]_vars

\* C12 witness: no backend, and a summary, a flashcard and a quiz request have
\* each been served by the fallback generators
C12_Witness ==
  /\ ~HAS_OPENAI
  /\ demo = <<"summary", "flashcards", "quiz">>
  /\ _queue = <<>>
  /\ _active = 0

\* ---------------------------------------------------------- summary claims
CeilDiv(a, b) == (a + b - 1) \div b
CallsOfKind(k) == {n \in 1..Len(sm.calls) : sm.calls[n].kind = k}

\* C13: with a backend and every generation succeeding, a summary over L
\* characters makes exactly ceil(L/S) partial generations and one merge
\* generation exactly when ceil(L/S) > 1: 4 calls for 20000 characters with
\* S = 8000, and 1 call without merge for 5000 characters.
C13_SummaryCallCount ==
  LET k == CeilDiv(sm.len, ChunkSize)
      m == IF k > 1 THEN 1 ELSE 0
  IN  HAS_OPENAI =>
        /\ Cardinality(CallsOfKind("chunk")) <= k
        /\ Cardinality(CallsOfKind("merge")) <= m
        /\ (sm.pc = "done") =>
             /\ Cardinality(CallsOfKind("chunk")) = k
             /\ Cardinality(CallsOfKind("merge")) = m
             /\ Len(sm.calls) = k + m
             /\ (sm.len = 20000) => Len(sm.calls) = 4
             /\ (sm.len = 5000) => Len(sm.calls) = 1 /\ sm.calls[1].kind = "chunk"

\* C13 witness: 20000 characters, three partial generations and then the merge
C13_Witness ==
  /\ HAS_OPENAI
  /\ sm.pc = "done"
  /\ sm.len = 20000
  /\ Len(sm.calls) = 4
  /\ sm.calls[3].kind = "chunk" /\ sm.calls[3].to = 20000
  /\ sm.calls[4].kind = "merge" /\ sm.calls[4].parts = 3

\* the thresholds and the maximum of the spread delay (server.js lines
\* 201-202; README_DEPLOY.md line 30: "attese fino a 120s totali")
\* C14: computeSpreadDelay(size) is 0 below the minimum threshold, the
\* maximum delay at or above the maximum threshold, and in between it never
\* decreases with the size and never exceeds the maximum.
C14_SpreadDelayShape ==
  /\ \A a, b \in TextLens :
       a <= b => computeSpreadDelay(a) <= computeSpreadDelay(b)
  /\ (sm.pc # "idle" /\ sm.len > 0 /\ HAS_OPENAI) =>
       /\ sm.totalDelay \in 0..SpreadMaxMs
       /\ (sm.len < SpreadMin) => sm.totalDelay = 0
       /\ (sm.len >= SpreadMax) => sm.totalDelay = SpreadMaxMs

\* ------------------------------------------------------------- quiz claims
QKey(list, i) == KeyOf(list[i].question)
SameKeyPairs(list) ==
  {p \in (1..Len(list)) \X (1..Len(list)) :
     p[1] < p[2] /\ QKey(list, p[1]) = QKey(list, p[2])}
ThreeOptions(list) == {i \in 1..Len(list) : Len(OptsOf(list[i].options)) = 3}

\* five questions with non-blank strings, exactly two of which share a key,
\* exactly one of which has three options, the others four or more
FiveWithDuplicateAndShort(list) ==
  /\ Len(list) = 5
  /\ \A i \in 1..5 : QKey(list, i) # <<>>
  /\ Cardinality(SameKeyPairs(list)) = 1
  /\ Cardinality(ThreeOptions(list)) = 1
  /\ \A i \in (1..5) \ ThreeOptions(list) : Len(OptsOf(list[i].options)) = 4

WellFormed(q) == Len(q.options) = 4 /\ q.correct \in 0..3

\* C15 as stated: from five questions, two sharing a question string (up to
\* case and surrounding blanks) and one with three options, the result has
\* exactly 2 questions, each with 4 options and a correct index in 0..3
\* (n is the default 15).
C15_FiveGiveTwo ==
  (qz.pc \in {"done", "failed"} /\ qz.n = Num(15)
     /\ FiveWithDuplicateAndShort(qz.raw)) =>
    /\ qz.pc = "done"
    /\ Len(qz.questions) = 2
    /\ \A k \in 1..Len(qz.questions) : WellFormed(qz.questions[k])

\* the question with three options is the later of the two that share a key
ShortIsSecondDuplicate(list) ==
  \E p \in SameKeyPairs(list) : p[2] \in ThreeOptions(list)

\* C15 amended: such a list leaves 3 questions (the first of the duplicates
\* counts; if it has three options both are dropped), or 4 when the question
\* with three options is the second duplicate; n cuts the result to its first
\* n questions; each has 4 options and a correct index in 0..3.
C15_FiveGiveThreeOrFour ==
  (qz.pc \in {"done", "failed"} /\ FiveWithDuplicateAndShort(qz.raw)) =>
    LET kept == IF ShortIsSecondDuplicate(qz.raw) THEN 4 ELSE 3
    IN  /\ qz.pc = "done"
        /\ Len(qz.questions) = IF ReachedN(kept, qz.n) THEN qz.n.v ELSE kept
        /\ \A k \in 1..Len(qz.questions) : WellFormed(qz.questions[k])

\* C15 witness: " a " (3 options), A, B, C, D with the default n: " a " is
\* dropped for its options, A as a duplicate, and B, C and D are returned
C15_Witness ==
  /\ qz.pc = "done"
  /\ qz.n = Num(15)
  /\ FiveWithDuplicateAndShort(qz.raw)
  /\ qz.raw[1].question = <<" ", "a", " ">>
  /\ qz.raw[2].question = <<"A">>
  /\ Len(qz.questions) = 3
  /\ qz.questions[1] = [question |-> <<"B">>, options |-> <<1, 2, 3, 4>>, correct |-> 0]

\* question i of the list is kept unless n is reached first
ValidAt(list, i) ==
  /\ QKey(list, i) # <<>>
  /\ \A j \in 1..(i - 1) : QKey(list, j) # QKey(list, i)
  /\ Len(OptsOf(list[i].options)) = 4

\* C16: sanitization drops the questions with a blank string, a key seen
\* before or fewer than 4 options; the request succeeds exactly when one
\* question is left, and it never succeeds with an empty list.
C16_NoValidQuestionFails ==
  /\ (qz.pc = "done") =>
       /\ qz.response = "ok"
       /\ Len(qz.questions) >= 1
       /\ \E i \in 1..Len(qz.raw) : ValidAt(qz.raw, i)
       /\ \A k \in 1..Len(qz.questions) :
            \E i \in 1..Len(qz.raw) :
              /\ ValidAt(qz.raw, i)
              /\ qz.questions[k].question = qz.raw[i].question
  /\ (qz.pc = "failed") => qz.questions = <<>> /\ qz.response # "ok"
  /\ (qz.response = "error: no valid question") =>
       \A i \in 1..Len(qz.raw) : ~ValidAt(qz.raw, i)

\* C16 witness: " a " with three options, "A" that repeats its key, and a
\* blank question without options: nothing is left and the request fails
C16_Witness ==
  /\ HAS_OPENAI
  /\ qz.pc = "failed"
  /\ qz.response = "error: no valid question"
  /\ Len(qz.raw) = 3
  /\ qz.raw[1].question = <<" ", "a", " ">>
  /\ qz.raw[2].question = <<"A">>
  /\ qz.raw[3].question = <<" ">>

\* -------------------------------------------------------- flashcard claims
\* C17: without a backend a flashcard request on a non-empty text with n >= 1
\* answers with min(n, 20) cards, at least one and at most n, in the order of
\* the text's long words followed by numbered placeholders, the same cards
\* for the same text and n, and it never calls askOpenAI_JSON.
C17_FallbackFlashcards ==
  (~HAS_OPENAI /\ fc.pc \notin {"idle", "sleeping"} /\ fc.text # <<>>) =>
    /\ fc.asked = 0
    /\ fc.pc = "done"
    /\ fc.response = "ok"
    /\ ~fc.n.nan =>
         /\ fc.n.v >= 1
         /\ Len(fc.cards) = IF fc.n.v < 20 THEN fc.n.v ELSE 20
         /\ Len(fc.cards) \in 1..fc.n.v
         /\ \A i \in 1..Len(fc.cards) :
              /\ fc.cards[i].front.i = i
              /\ fc.cards[i].front.kind = "word" =>
                   \E k \in 1..Len(fc.text) :
                     /\ fc.text[k].w = fc.cards[i].front.w
                     /\ fc.text[k].len > 6
              /\ \A j \in 1..(i - 1) :
                   fc.cards[j].front # fc.cards[i].front
              /\ (fc.cards[i].front.kind = "Concetto" /\ i > 1) =>
                   \A k \in 1..Len(fc.text) :
                     fc.text[k].len > 6 =>
                       \E j \in 1..(i - 1) : fc.cards[j].front.w = fc.text[k].w

\* C17 witness: no backend, num = 25, a text with a short word and twice the
\* same long word: 20 cards, the first for the long word, the others placeholders
C17_Witness ==
  /\ ~HAS_OPENAI
  /\ fc.pc = "done"
  /\ fc.n = Num(25)
  /\ Len(fc.text) = 3
  /\ fc.text[1].w = "acqua"
  /\ fc.text[2].w = "cellula"
  /\ fc.text[3].w = "cellula"
  /\ Len(fc.cards) = 20
  /\ fc.cards[1].front = [kind |-> "word", w |-> "cellula", i |-> 1]
  /\ fc.cards[2].front = [kind |-> "Concetto", w |-> "", i |-> 2]

\* --------------------------------------------------------- safeJSON claims
Openers(s) == {k \in 1..Len(s) : s[k] \in {"{", "["}}
FirstOpener(s) == CHOOSE k \in Openers(s) : \A m \in Openers(s) : k <= m
ClosersFrom(s, a) == {k \in a..Len(s) : s[k] \in {"}", "]"}}
LastCloser(s, a) == CHOOSE k \in ClosersFrom(s, a) : \A m \in ClosersFrom(s, a) : k >= m

\* from the first '{' or '[' to the last '}' or ']' after it (to the end of
\* the text if there is none)
Bracketed(s) ==
  LET a == FirstOpener(s)
  IN  SubSeq(s, a, IF ClosersFrom(s, a) = {} THEN Len(s) ELSE LastCloser(s, a))

Parsed(s) == [kind |-> "ok", val |-> SelectSeq(s, NotWhite), err |-> "none"]

\* a block labelled json whose content is JSON gives the parse of the content
C18_Fenced ==
  (sj.pc = "returned" /\ FenceOpen(sj.text) # 0
     /\ IsJsonValue(SelectSeq(FencedContent(sj.text), NotWhite))) =>
    sj.out = Parsed(FencedContent(sj.text))

\* without such a block, a text with a '{' or '[' gives the parse of the
\* pieces from the first of them to the last '}' or ']'
C18_Noise ==
  (sj.pc = "returned" /\ FenceOpen(sj.text) = 0 /\ Openers(sj.text) # {}) =>
    sj.out = JSONparse(Bracketed(sj.text))

Terminal == promise[1].st # "pending"

C19_TerminalState ==
  Terminal =>
    /\ G.pc \in {"done", "failed"}
    /\ promise[1].st = "resolved" <=> G.pc = "done"
    /\ promise[1].st = "rejected" <=> G.pc = "failed"
    /\ promise[1].val = G.result.val
    /\ tstate[1] = "done"
    /\ 1 \notin Range(_queue)
    /\ _active = 0
    /\ wr[1].pc \notin {"awaiting", "sleeping"}
    /\ timer[1] = 0
    /\ tpc[1] = "idle"

C19_TerminalStep ==
  Terminal =>
    /\ promise'[1] = promise[1]
    /\ ask'[1] = ask[1]
    /\ wr'[1] = wr[1]
    /\ admissions' = admissions

C19_EventuallyTerminal ==
  /\ (HAS_OPENAI /\ G.pc # "idle") ~> Terminal
  /\ []C19_TerminalState
  /\ [][C19_TerminalStep]_vars

\* C19 witness: a request that failed to decode twice (two upstream calls,
\* a pause between them) is Failed, and its slot is free again
C19_Witness ==
  /\ HAS_OPENAI
  /\ promise[1].st = "rejected"
  /\ G.pc = "failed"
  /\ G.upstream = 2
  /\ G.pauses = <<150>>
  /\ _active = 0
  /\ _queue = <<>>

\* ------------------------------------------------ concurrent gate claims
\* wake-up j ends a wait that overlapped the wait ended by wake-up i: its
\* caller was still suspended when i happened and has not woken in between
OverlappingWakes ==
  {p \in (1..Len(wakes)) \X (1..Len(wakes)) :
     /\ p[1] < p[2]
     /\ wakes[p[2]].c \in wakes[p[1]].others
     /\ \A k \in (p[1] + 1)..(p[2] - 1) : wakes[k].c # wakes[p[2]].c}

AdmittedIn(from, to) == {k \in 1..Len(admissions) : admissions[k] >= from /\ admissions[k] < to}

\* C20: callers suspended in throttleRPM at the same time each re-check the
\* window after waking; those woken from overlapping waits are not all
\* admitted when that puts more than OPENAI_RPM admissions in the window that
\* the first wake-up started.
C20_WakersRecheckWindow ==
  \A p \in OverlappingWakes :
    Cardinality(AdmittedIn(wakes[p[1]].at, wakes[p[1]].at + Window)) <= OPENAI_RPM

\* C21 helpers: what kind of step of throttleRPM a transition is, read from
\* the callers' positions and the admissions log
Returned == Len(admissions') = Len(admissions) + 1
Suspended == \E c \in Callers : tpc[c] = "idle" /\ tpc'[c] = "sleeping"
Woke == \E c \in Callers : tpc[c] = "sleeping" /\ tpc'[c] = "idle"
Elapsed == now - _winStart >= 60000

C21_State == _reqInWindow >= 0 /\ _reqInWindow <= OPENAI_RPM

C21_Step ==
  /\ (Returned /\ Woke) => _winStart' = now /\ _reqInWindow' = 1
  /\ (Returned /\ ~Woke /\ Elapsed) => _winStart' = now /\ _reqInWindow' = 1
  /\ (Returned /\ ~Woke /\ ~Elapsed) =>
        _winStart' = _winStart /\ _reqInWindow' = _reqInWindow + 1
  /\ (Suspended /\ Elapsed) => _winStart' = now /\ _reqInWindow' = 0
  /\ (Suspended /\ ~Elapsed) => UNCHANGED <<_winStart, _reqInWindow>>
  /\ (~Returned /\ ~Suspended) => UNCHANGED <<_winStart, _reqInWindow>>

\* C21: every call of throttleRPM increments _reqInWindow exactly once before
\* it returns, the counter stays within 0..OPENAI_RPM in every reachable state
\* under any interleaving of callers, and a call that observes
\* now - _winStart >= 60000 resets the window (start to now, count to 0).
C21_CounterWithinLimit == []C21_State /\ [][C21_Step]_vars

\* C21 witness: a caller has woken while another was still suspended, a caller
\* is suspended now, and the counter sits at the limit
C21_Witness ==
  /\ Len(wakes) >= 1
  /\ \E c \in Callers : tpc[c] = "sleeping"
  /\ Len(admissions) >= 3
  /\ _reqInWindow = OPENAI_RPM

\* ------------------------------------------- generation claims, continued
\* C22: every upstream completion request of a generation request is preceded
\* by its own admission through throttleRPM: the upstream calls sent so far,
\* the retries inside withRetries and the text-mode call included, never
\* outnumber the admissions.
C22_EveryCallAdmitted ==
  HAS_OPENAI => G.upstream <= Len(admissions)

\* the upstream calls of the request that have settled, and whether each of
\* them was rejected with a rate-limit error
SettledCalls == G.upstream - (IF G.pc = "calling" /\ wr[1].pc = "awaiting" THEN 1 ELSE 0)
OnlyRateLimited == G.n429 = SettledCalls

\* C23: when the upstream rejects every call of a generation request with a
\* 429, withRetries retries up to its cap and the failure is then final: the
\* request sends at most retries + 1 upstream calls.
C23_RateLimitedFailsAfterCap ==
  (HAS_OPENAI /\ OnlyRateLimited) => G.upstream <= DefaultRetries + 1

C24_Step ==
  HAS_OPENAI =>
    \* a rejected schema-mode call is followed by the text-mode call of the
    \* same attempt
    /\ (G.pc = "calling" /\ G.mode = "schema" /\ ask'[1].nRejects = G.nRejects + 1) =>
         /\ ask'[1].pc = "calling"
         /\ ask'[1].mode = "text"
         /\ ask'[1].attempt = G.attempt
         /\ ask'[1].upstream = G.upstream + 1
         /\ wr'[1].pc = "awaiting" /\ wr'[1].calls = 1
         /\ Len(ask'[1].failures) = Len(G.failures)
         /\ Len(ask'[1].pauses) = Len(G.pauses)
    \* text mode is entered in no other way
    /\ (ask'[1].mode = "text" /\ G.mode # "text") =>
         /\ G.mode = "schema"
         /\ ask'[1].nRejects = G.nRejects + 1
         /\ ask'[1].attempt = G.attempt
    \* an attempt never starts, or starts over, in text mode
    /\ (ask'[1].mode = "text" /\ G.mode = "text") => ask'[1].attempt = G.attempt
    /\ (ask'[1].attempt # G.attempt /\ ask'[1].pc = "calling") => ask'[1].mode = "schema"
    /\ (G.pc = "gate" /\ ask'[1].pc = "calling") => ask'[1].mode = "schema"

\* C24: when the backend rejects schema-constrained mode as unsupported
\* (status 400 mentioning response_format), the request falls back to a
\* text-mode call within the same attempt, without advancing the attempt
\* counter; the fallback lasts for that attempt only, the next attempt asks
\* for schema mode again.
C24_SchemaFallbackPerAttempt == [][C24_Step]_vars

\* C24 witness: attempt 1 fell back to text mode and failed, attempt 2 asked
\* for schema mode again, was rejected too and is in its text-mode call
C24_Witness ==
  /\ G.pc = "calling"
  /\ G.mode = "text"
  /\ G.attempt = 2
  /\ G.nRejects = 2
  /\ Len(G.failures) = 1

\* the response that settles the upstream call in this step carries
\* message.parsed
ParsedArrives ==
  /\ G.pc = "calling"
  /\ wr[1].pc = "awaiting"
  /\ wr'[1].pc = "returned"
  /\ wr'[1].last.val \in {"parsed", "parsed+garbage"}

C25_Step ==
  HAS_OPENAI =>
    /\ (ParsedArrives /\ G.mode = "schema") =>
         /\ ask'[1].pc = "done"
         /\ ask'[1].result = [kind |-> "ok", val |-> <<"parsed", G.attempt>>]
         /\ ask'[1].attempt = G.attempt
         /\ ask'[1].upstream = G.upstream
         /\ Len(ask'[1].failures) = Len(G.failures)
         /\ fnResult'[1] = ask'[1].result
    /\ (ParsedArrives /\ G.mode = "text") =>
         /\ ask'[1].pc # "done"
         /\ Len(ask'[1].failures) = Len(G.failures) + 1
         /\ ask'[1].lastErr.src \in {"parse", "empty"}
    /\ G.pc = "done" => ask'[1] = ask[1]

C25_State ==
  (HAS_OPENAI /\ G.pc = "done") =>
    /\ G.result.val[1] = "parsed" => G.mode = "schema"
    /\ G.upstream = G.decoded[Len(G.decoded)].id

\* C25: when the schema-mode call of an attempt succeeds and the response
\* carries a pre-parsed structure, the request returns that structure in that
\* attempt, without tolerant JSON extraction (unparsable content beside it
\* does not matter) and without further attempts; a pre-parsed structure in
\* the response of a text-mode fallback call is never accepted.
C25_PreParsedAcceptedInSchemaModeOnly == []C25_State /\ [][C25_Step]_vars

\* C25 witness: attempt 2 got a schema-mode response with message.parsed and
\* unparsable content, and the request is done with the parsed structure
C25_Witness ==
  /\ G.pc = "done"
  /\ G.attempt = 2
  /\ G.mode = "schema"
  /\ wr[1].last.val = "parsed+garbage"
  /\ G.result = [kind |-> "ok", val |-> <<"parsed", 2>>]

\* the state of the request in the terms of the state machine; Parsing is
\* the part of the step in which a returned response is decoded
Phase(pc) ==
  CASE pc = "queued" -> "Queued"
    [] pc = "gate" -> "RateGated"
    [] pc = "calling" -> "Calling"
    [] pc = "pause" -> "Retrying"
    [] pc = "done" -> "Done"
    [] pc = "failed" -> "Failed"
    [] OTHER -> "None"

C26_Step ==
  LET p == Phase(G.pc)
      q == Phase(ask'[1].pc)
      parsed == wr[1].pc = "awaiting" /\ wr'[1].pc = "returned"
  IN  (HAS_OPENAI /\ p # q) =>
        \/ p = "None" /\ q \in {"Queued", "RateGated", "Calling"}
        \/ p = "Queued" /\ q \in {"RateGated", "Calling"}
        \/ p = "RateGated" /\ q = "Calling"
        \/ p = "Calling" /\ parsed /\ q \in {"Done", "Retrying"}
        \/ p = "Retrying" /\ q = "Calling"
        \/ p \notin {"Done", "Failed"} /\ q = "Failed"

\* C26: a generation request moves only along Queued -> RateGated -> Calling
\* -> Parsing, Parsing -> Done, Parsing -> Retrying, Retrying -> Calling and
\* from a non-terminal state to Failed: after Retrying it goes straight to
\* Calling, and it is queued and rate-gated before its first upstream call.
C26_StateMachineEdges == [][C26_Step]_vars

\* ------------------------------------------- withRetries claims, continued
C27_State ==
  /\ W.pc = "sleeping" =>
       /\ W.i < W.retries
       /\ W.sleepMs >= W.base * 2^(W.i)
       /\ W.sleepMs < W.base * 2^(W.i) + 150
       /\ timer[1] - W.sleepMs <= now
       /\ W.slept = W.i + 1
       /\ W.calls = W.i + 1
  /\ W.pc \in {"awaiting", "returned", "thrown"} =>
       /\ W.slept = W.i
       /\ W.calls = W.i + 1
       /\ timer[1] = 0

C27_Step ==
  (W.pc = "sleeping" /\ wr'[1] # W) =>
    /\ now >= timer[1]
    /\ wr'[1].pc = "awaiting"
    /\ wr'[1].i = W.i + 1

\* C27: before retry number i (from 0, i < retries) withRetries waits at least
\* base * 2^i and less than base * 2^i + 150 ms, so the least wait doubles
\* from one retry to the next; it does not wait before the first invocation
\* of fn nor after the failure it rethrows.
C27_BackoffDoubles == []C27_State /\ [][C27_Step]_vars

\* C27 witness: the third backoff, with the largest jitter: 500 * 4 + 149 ms
C27_Witness ==
  /\ W.pc = "sleeping"
  /\ W.i = 2
  /\ W.base = 500
  /\ W.sleepMs = 2149

\* ------------------------------------------------------- chunkText claims
RECURSIVE Concat(_)
Concat(ss) == IF ss = <<>> THEN <<>> ELSE Head(ss) \o Concat(Tail(ss))

\* C28: chunkText(txt, max) with max >= 1 returns contiguous slices of txt,
\* in order and without overlap, whose concatenation is txt: ceil(len/max)
\* slices, each but the last of max characters, the last of 1..max
\* characters, and none for the empty text.
C28_ChunksPartitionText ==
  ck.calls > 0 =>
    LET n == Len(ck.chunks)
        L == Len(ck.txt)
        m == ck.max
    IN  /\ n = CeilDiv(L, m)
        /\ L = 0 => n = 0
        /\ \A k \in 1..(n - 1) : Len(ck.chunks[k]) = m
        /\ n > 0 => (Len(ck.chunks[n]) >= 1 /\ Len(ck.chunks[n]) <= m)
        /\ \A k \in 1..n :
             ck.chunks[k] = [j \in 1..Len(ck.chunks[k]) |-> ck.txt[(k - 1) * m + j]]
        /\ Concat(ck.chunks) = ck.txt
        /\ Len(chunkText(L, m)) = n
        /\ \A k \in 1..n :
             /\ chunkText(L, m)[k].from = (k - 1) * m
             /\ chunkText(L, m)[k].to = chunkText(L, m)[k].from + Len(ck.chunks[k])

\* C28 witness: five characters cut by twos: two full slices and a last one
\* of a single character
C28_Witness ==
  /\ ck.txt = <<"a", "b", "b", "a", "b">>
  /\ ck.max = 2
  /\ ck.chunks = << <<"a", "b">>, <<"b", "a">>, <<"b">> >>

\* ------------------------------------------- summary claims, continued
\* the delay that applies between the calls of a summary request, and the
\* pauses taken before slice i (0-based)
ApplicableDelay == IF sm.perChunkDelay > 0 THEN sm.perChunkDelay ELSE sm.CHUNK_PAUSE_MS
PausesBefore(i) == {k \in 1..Len(sm.sleeps) : sm.sleeps[k].before = i}
SliceCalls == {k \in 1..Len(sm.calls) : sm.calls[k].kind = "chunk"}

\* C29: in a chunked summary no pause is taken before the generation of the
\* first slice; when the applicable delay is positive one pause of that
\* length is taken before the generation of each later slice, whatever the
\* number of slices, and when it is zero none is taken.
C29_PauseBetweenSlicesOnly ==
  /\ PausesBefore(0) = {}
  /\ \A k \in 1..Len(sm.sleeps) : sm.sleeps[k].ms > 0
  /\ \A k \in SliceCalls :
       LET i == sm.calls[k].i
       IN  /\ i = k - 1
           /\ Cardinality(PausesBefore(i)) = IF i > 0 /\ ApplicableDelay > 0 THEN 1 ELSE 0
           /\ \A p \in PausesBefore(i) :
                /\ sm.sleeps[p].ms = ApplicableDelay
                /\ p = i
  /\ (sm.pc = "sleeping" /\ sm.i < Len(sm.chunks)) =>
       /\ sm.i > 0
       /\ sm.sleeps[Len(sm.sleeps)].before = sm.i
       /\ Len(sm.calls) = sm.i
       /\ Len(sm.partials) = sm.i

\* C29 witness: three slices with CHUNK_PAUSE_MS = 250: the third slice is
\* being generated after a pause before the second and one before the third
C29_Witness ==
  /\ Len(sm.chunks) = 3
  /\ sm.pc = "generating"
  /\ sm.i = 2
  /\ sm.sleeps = <<[before |-> 1, ms |-> 250], [before |-> 2, ms |-> 250]>>

\* C30: the spread delay and the fixed pause never both apply to one pause:
\* every pause of a summary request lasts the per-chunk share of the spread
\* delay when that share is positive and CHUNK_PAUSE_MS when the share is
\* zero, never their sum; with a zero share and a positive CHUNK_PAUSE_MS
\* the pauses are taken.
C30_OneDelaySourcePerPause ==
  /\ Len(sm.chunks) > 0 => sm.perChunkDelay = sm.totalDelay \div Len(sm.chunks)
  /\ \A k \in 1..Len(sm.sleeps) :
       LET ms == sm.sleeps[k].ms
       IN  /\ sm.perChunkDelay > 0 => ms = sm.perChunkDelay
           /\ sm.perChunkDelay = 0 => ms = sm.CHUNK_PAUSE_MS
           /\ (sm.perChunkDelay > 0 /\ sm.CHUNK_PAUSE_MS > 0) =>
                ms # sm.perChunkDelay + sm.CHUNK_PAUSE_MS
  /\ (sm.pc = "generating" /\ sm.perChunkDelay = 0 /\ sm.CHUNK_PAUSE_MS > 0) =>
       Len(sm.sleeps) = sm.i

\* C30 witness: two slices, no spread delay, CHUNK_PAUSE_MS = 250: the pause
\* before the merge call is the second pause of 250 ms
C30_Witness ==
  /\ Len(sm.chunks) = 2
  /\ sm.totalDelay = 0
  /\ sm.CHUNK_PAUSE_MS = 250
  /\ sm.pc = "sleeping"
  /\ sm.i = 2
  /\ Len(sm.sleeps) = 2
  /\ sm.sleeps[2].ms = 250

\* --------------------------------------------------- spread delay claims
RECURSIVE SumMs(_)
SumMs(sl) == IF sl = <<>> THEN 0 ELSE Head(sl).ms + SumMs(Tail(sl))
BetweenSlices == {k \in 1..Len(sm.sleeps) : sm.sleeps[k].before < Len(sm.chunks)}

\* C31: in a summary of k > 1 slices with total spread delay T, every pause
\* between consecutive slices is T divided by the k - 1 transitions, so the
\* pauses between slices add up to T, up to integer rounding.
C31_SpreadOverTransitions ==
  LET k == Len(sm.chunks)
      T == sm.totalDelay
  IN  (k > 1 /\ T > 0) =>
        \A p \in BetweenSlices :
          /\ sm.sleeps[p].ms * (k - 1) >= T - k
          /\ sm.sleeps[p].ms * (k - 1) <= T + k

\* C31 as the code has it: every pause is T divided by the number k of
\* slices, rounded down; one is taken before each slice but the first and one
\* before the merge call, and these k pauses together add up to T, up to
\* integer rounding.
C31_SpreadOverSlices ==
  LET k == Len(sm.chunks)
      T == sm.totalDelay
  IN  (k > 1 /\ T > 0) =>
        /\ \A p \in 1..Len(sm.sleeps) :
             /\ sm.sleeps[p].ms * k <= T
             /\ sm.sleeps[p].ms * k > T - k
             /\ sm.sleeps[p].before = p
        /\ Len(sm.sleeps) <= k
        /\ (sm.pc = "done") =>
             /\ Len(sm.sleeps) = k
             /\ Cardinality(BetweenSlices) = k - 1
             /\ SumMs(sm.sleeps) <= T
             /\ SumMs(sm.sleeps) > T - k

\* C31 witness: 20000 characters give three slices and T = 34285 ms; three
\* pauses of 11428 ms were taken, the last one before the merge call
C31_Witness ==
  /\ sm.pc = "done"
  /\ Len(sm.chunks) = 3
  /\ sm.totalDelay = 34285
  /\ Len(sm.sleeps) = 3
  /\ \A p \in 1..3 : sm.sleeps[p].ms = 11428

\* C32: with SPREAD_DISABLE set computeSpreadDelay gives 0 for every size;
\* with spreading enabled and a backend configured it gives the delay that
\* depends on the size, which is positive above the minimum threshold.
C32_SpreadFollowsConfiguration ==
  (sm.pc # "idle" /\ sm.len > 0) =>
    /\ sm.SPREAD_DISABLE => sm.totalDelay = 0
    /\ (~sm.SPREAD_DISABLE /\ HAS_OPENAI /\ sm.len > SpreadMin) => sm.totalDelay > 0

\* ------------------------------------------------ quiz claims, continued
\* a is b with some of its elements left out
RECURSIVE IsSubseq(_, _)
IsSubseq(a, b) ==
  IF a = <<>> THEN TRUE
  ELSE IF b = <<>> THEN FALSE
  ELSE IF Head(a) = Head(b) THEN IsSubseq(Tail(a), Tail(b))
  ELSE IsSubseq(a, Tail(b))
QuestionsOf(list) == [k \in 1..Len(list) |-> list[k].question]

\* C33: for every generated list and every n >= 1 a successful quiz result
\* has between 1 and n questions, each with exactly 4 options and a whole
\* correct index in 0..3, whose trimmed lower-cased question strings differ
\* pairwise, in the order they have in the generated list.
C33_SanitizedResultShape ==
  (qz.pc = "done" /\ ~qz.n.nan /\ qz.n.v >= 1) =>
    /\ Len(qz.questions) >= 1
    /\ Len(qz.questions) <= qz.n.v
    /\ \A k \in 1..Len(qz.questions) :
         /\ Len(qz.questions[k].options) = 4
         /\ qz.questions[k].correct \in 0..3
    /\ \A j, k \in 1..Len(qz.questions) :
         j # k => QKey(qz.questions, j) # QKey(qz.questions, k)
    /\ IsSubseq(QuestionsOf(qz.questions), QuestionsOf(qz.raw))

\* C33 witness: n = 2 and the list A (five options, correct 7), " a ", B, C,
\* D: the result is A cut to four options with correct 3, and B with correct 0
C33_Witness ==
  /\ qz.pc = "done"
  /\ qz.n = Num(2)
  /\ Len(qz.raw) = 5
  /\ qz.raw[2].question = <<" ", "a", " ">>
  /\ qz.questions =
       << [question |-> <<"A">>, options |-> <<1, 2, 3, 4>>, correct |-> 3],
          [question |-> <<"B">>, options |-> <<1, 2, 3, 4>>, correct |-> 0] >>

\* C34: without a backend generation always succeeds: for every non-empty
\* extracted text the request is answered with a result, never with an
\* error (here: the quiz request).
C34_FallbackAlwaysSucceeds ==
  (~HAS_OPENAI /\ qz.pc \in {"done", "failed"} /\ qz.response # "error: no text") =>
    /\ qz.pc = "done"
    /\ qz.response = "ok"

\* ------------------------------------------- summary claims, continued
C35_State ==
  /\ Len(sm.calls) <= Len(sm.partials) + 1
  /\ \A k \in 1..Len(sm.calls) :
       /\ sm.calls[k].kind = "chunk" =>
            /\ sm.calls[k].i = k - 1
            /\ k <= Len(sm.chunks)
            /\ sm.calls[k].from = sm.chunks[k].from
            /\ sm.calls[k].to = sm.chunks[k].to
            /\ Len(sm.partials) >= k - 1
       /\ sm.calls[k].kind = "merge" =>
            /\ k = Len(sm.chunks) + 1
            /\ k = Len(sm.calls)
            /\ Len(sm.partials) = Len(sm.chunks)
            /\ sm.calls[k].parts = Len(sm.chunks)
  /\ sm.pc = "sleeping" => Len(sm.calls) = Len(sm.partials)
  /\ (sm.pc = "generating" /\ sm.i < Len(sm.chunks)) => Len(sm.calls) = Len(sm.partials) + 1
  /\ sm.pc = "failed" => sm.response = "error"
  /\ sm.response = "ok" =>
       /\ sm.pc = "done"
       /\ Len(sm.partials) = Len(sm.chunks)
       /\ Len(sm.calls) = Len(sm.chunks) + (IF HAS_OPENAI /\ Len(sm.chunks) > 1 THEN 1 ELSE 0)

C35_Step ==
  /\ sm.pc \in {"failed", "done"} => sm' = sm
  /\ Len(sm'.calls) > Len(sm.calls) =>
       /\ Len(sm'.calls) = Len(sm.calls) + 1
       /\ sm.pc = "generating" => Len(sm'.partials) = Len(sm.partials) + 1

\* C35: the slices of a chunked summary are generated in order and one at a
\* time: the call for a slice is made only after the call for the slice
\* before it has returned, the merge call only after all slices; when the
\* generation of a slice or the merge fails, no further call is made and the
\* request fails without returning any partial summary.
C35_SlicesInOrderFailFast == []C35_State /\ [][C35_Step]_vars

\* C35 witness: three slices, the first was summarised, the call for the
\* second failed and the request has failed
C35_Witness ==
  /\ sm.pc = "failed"
  /\ Len(sm.chunks) = 3
  /\ Len(sm.partials) = 1
  /\ Len(sm.calls) = 2

\* ------------------------------------------------ queue claims, continued
Count(s, x) == Cardinality({k \in 1..Len(s) : s[k] = x})

C36_State ==
  \A t \in Tasks :
    /\ Count(submitOrder, t) = IF tstate[t] = "unsubmitted" THEN 0 ELSE 1
    /\ Count(_queue, t) + Count(dispatchOrder, t) =
         IF tstate[t] = "unsubmitted" THEN 0 ELSE 1
    /\ Count(_queue, t) = 1 <=> tstate[t] = "queued"
    /\ Count(dispatchOrder, t) = 1 <=> tstate[t] \in {"running", "fnSettled", "done"}
    /\ promise[t] # Pending <=> tstate[t] = "done"
    /\ fnResult[t] # NoResult <=> tstate[t] \in {"fnSettled", "done"}

C36_Step ==
  \A t \in Tasks :
    /\ promise[t] # Pending => promise'[t] = promise[t]
    /\ fnResult[t] # NoResult => fnResult'[t] = fnResult[t]
    /\ Count(dispatchOrder, t) = 1 =>
         /\ Count(dispatchOrder', t) = 1
         /\ Count(_queue', t) = 0

\* C36: every task given to runQueued has its function invoked exactly once
\* once it is dispatched, never twice, and its promise settled exactly once,
\* under every interleaving of submissions, completions and scheduled _pump
\* callbacks; no queue entry is lost or duplicated.
C36_InvokedAndSettledOnce == []C36_State /\ [][C36_Step]_vars

\* C36 witness: with one slot three tasks were submitted, each was dispatched
\* once, in turn, and each promise is settled
C36_Witness ==
  /\ OPENAI_CONCURRENCY = 1
  /\ dispatchOrder = <<1, 2, 3>>
  /\ _queue = <<>>
  /\ \A t \in Tasks : tstate[t] = "done" /\ promise[t] # Pending

\* C37: no lost wake-up: whenever an entry waits in the queue while a slot is
\* free, a _pump callback scheduled by setImmediate is still pending, so no
\* state without pending callbacks has a waiting entry and a free slot, also
\* when a submission arrives between a completion and the scheduled _pump.
C37_NoLostWakeup ==
  (_queue # <<>> /\ _active < OPENAI_CONCURRENCY) => immediates > 0

\* C37 witness: two slots, both tasks have completed while a third entry
\* waits; the two scheduled callbacks have not run yet
C37_Witness ==
  /\ OPENAI_CONCURRENCY = 2
  /\ tstate[1] = "done" /\ tstate[2] = "done"
  /\ _queue = <<3>>
  /\ _active = 0
  /\ immediates = 2

\* ------------------------------------------- generation claims, continued
\* the request is between its first attempt and its terminal state
C38_InFlight == G.pc \in {"gate", "calling", "pause"}

C38_State ==
  /\ C38_InFlight =>
       /\ tstate[1] = "running"
       /\ _active = 1
       /\ _queue = <<>>
       /\ submitOrder = <<1>>
       /\ dispatchOrder = <<1>>
       /\ promise[1] = Pending
  /\ G.pc \in {"done", "failed"} /\ G.lastErr.src # "config" =>
       /\ submitOrder = <<1>>
       /\ dispatchOrder = <<1>>

C38_Step ==
  C38_InFlight =>
    /\ UNCHANGED <<_queue, submitOrder, dispatchOrder, promise, immediates>>
    /\ _active' = 1
    /\ tstate'[1] \in {"running", "fnSettled"}
    /\ tstate'[1] = "fnSettled" <=> G'.pc \in {"done", "failed"}

\* C38: a generation request holds one queue slot from its dispatch until it
\* finishes: its attempts, gate waits, 429 backoffs and pauses between
\* attempts all run inside the one queued task, the request is never
\* enqueued again and _active stays 1 from the first attempt to the end.
C38_OneSlotPerRequest == []C38_State /\ [][C38_Step]_vars

\* C38 witness: the request is in a later attempt after a 429 backoff and a
\* pause between attempts, waiting at the rate gate, still in its one slot
C38_Witness ==
  /\ G.pc = "gate"
  /\ G.attempt >= 2
  /\ G.n429 >= 1
  /\ Len(G.pauses) >= 1
  /\ _active = 1
  /\ dispatchOrder = <<1>>

\* entry i of the generated list is well formed: a non-blank question and at
\* least four options
WellFormedAt(list, i) ==
  /\ QKey(list, i) # <<>>
  /\ list[i].options.arr
  /\ Len(list[i].options.items) >= 4

\* C39: quiz sanitization keeps the first well-formed entry of each question
\* key: when the generated list has a well-formed entry with key k and the
\* result stayed below n questions (so fewer than n were kept before any
\* entry), the result has a question with key k, also when an earlier entry
\* with that key was dropped for having fewer than four options.
C39_FirstWellFormedKept ==
  (qz.pc = "done" /\ ~qz.n.nan /\ Len(qz.questions) < qz.n.v) =>
    \A i \in 1..Len(qz.raw) :
      WellFormedAt(qz.raw, i) =>
        \E k \in 1..Len(qz.questions) :
          QKey(qz.questions, k) = QKey(qz.raw, i)

\* ----------------------------------------------------- OCR fallback claims
OcrOps == [k \in 1..Len(ocr.calls) |-> ocr.calls[k].op]
OcrEnded == ocr.pc \in {"done", "failed"}
DelAttempts == Count(OcrOps, "files.del")
OpRank(op) ==
  CASE op = "files.create" -> 1
    [] op = "responses.create" -> 2
    [] OTHER -> 3

C40_State ==
  \* the upload, the response call and the deletion each run in a task of
  \* their own, dispatched in that order
  /\ \A k \in 1..Len(ocr.calls) : ocr.calls[k].task = OpRank(ocr.calls[k].op)
  /\ \A j, k \in 1..Len(ocr.calls) :
       j < k => OpRank(ocr.calls[j].op) <= OpRank(ocr.calls[k].op)
  /\ dispatchOrder = SubSeq(<<1, 2, 3>>, 1, Len(dispatchOrder))
  /\ submitOrder = dispatchOrder
  \* never more than one deletion, and only of an uploaded file after the
  \* response call has finished
  /\ DelAttempts <= 1
  /\ DelAttempts = 1 =>
       /\ ocr.file
       /\ promise[1].st = "resolved"
       /\ promise[2].st # "pending"
       /\ ocr.outcome.kind # "none"
  /\ ~ocr.file => DelAttempts = 0 /\ Count(OcrOps, "responses.create") = 0
  \* runPdfOCR ends only after the deletion, and as the response call and
  \* the text decided
  /\ (OcrEnded /\ ocr.file) =>
       /\ DelAttempts = 1
       /\ promise[3].st = "resolved"
       /\ ocr.result = OcrOutcomeOf(promise[2].st, ocr.resp)
       /\ ocr.pc = "done" <=>
            (promise[2].st = "resolved" /\ ocr.resp = " x  y ")
       /\ ocr.pc = "done" => ocr.result.text = <<"x", " ", "y">>

C40_Step ==
  /\ ocr.pc = "deletion" => ocr'.outcome = ocr.outcome
  /\ DelAttempts = 1 => DelAttempts' = 1

\* C40: in runPdfOCR, once the upload has succeeded, the deletion of the
\* uploaded file is attempted exactly once, after the OCR response call has
\* finished, whether that call succeeded, failed or gave an empty text; the
\* upload, the response call and the deletion are three queued tasks in that
\* order, and a failing deletion leaves the outcome of runPdfOCR as it was.
C40_CleanupOnceAfterResponse ==
  /\ []C40_State
  /\ [][C40_Step]_vars
  /\ (ocr.file ~> DelAttempts = 1)
  /\ (ocr.file ~> OcrEnded)

\* C40 witness: the response call failed after the upload had succeeded, the
\* deletion failed as well, and runPdfOCR ends with the error of the
\* response call
C40_Witness ==
  /\ ocr.pc = "failed"
  /\ ocr.file
  /\ promise[2].st = "rejected"
  /\ ocr.delFailed
  /\ DelAttempts = 1
  /\ ocr.result = OcrError("response")
====
